---- MODULE Spec2Model ----
(***************************************************************************)
(* Model of sony-vp-extract (cli/extract.ts): the container decoder        *)
(* (parseHeader, decrypt, decompressLzma, extractPrompts, extractFile)     *)
(* and the key recovery search (findAscii16Strings, tryKeyIvPair).         *)
(*                                                                         *)
(* Buffers are sequences of bytes (0..255); a 0-based buffer index i is    *)
(* element i+1 of the sequence.  A thrown exception is the value Thrown.   *)
(***************************************************************************)
EXTENDS Integers, Sequences, FiniteSets, TLC

VARIABLES
    pc,            \* position of the running command
    image,         \* the structured asset image the container or buffer was built from
    data,          \* extractFile: the container file read, [len, head, body]
    info,          \* extractFile: what parseHeader returned, or Thrown
    decrypted,     \* extractPrompts: what decrypt returned, or Thrown
    decompressed,  \* extractPrompts: the decompressed buffer
    result,        \* extractPrompts: what the call returned, or Thrown
    files,         \* the output directory: files as (language, index, bytes)
    fw,            \* extractKey: the firmware dump read
    candidates,    \* extractKey: what findAscii16Strings returned
    hypothesis,    \* tryKeyIvPair: its arguments, [key, iv, ciphertext]
    accepted,      \* tryKeyIvPair: what it returned
    search,        \* extractKey: the loop variables [ci, j] and the role tried next
    tested,        \* extractKey: the calls of tryKeyIvPair made so far, in order
    found,         \* extractKey: the key and IV handed to printKeyResult
    queue,         \* extractAll: the files the loop has still to take
    attempted,     \* extractAll: the files extractFile was called on, in order
    exitCode,      \* the exit code the process ended with
    calls,         \* extractPrompts: the locals of each call in flight
    heap,          \* the Buffers: those of the callers and those the calls allocate
    jobs,          \* LZMA.decompress: the inputs whose callback is still to come
    args,          \* cli: process.argv.slice(2)
    command,       \* cli: the command the dispatch ran, with its arguments
    props,         \* the properties byte of an LZMA header
    params         \* the lc, lp and pb derived from the properties byte

extractVars == <<image, data, info, decrypted, decompressed, result, files>>
keyVars == <<fw, candidates, hypothesis, accepted, search, tested, found>>
hostVars == <<queue, attempted, exitCode, calls, heap, jobs>>
cliVars == <<args, command>>
propVars == <<props, params>>
vars == <<pc, image, data, info, decrypted, decompressed, result, files,
          fw, candidates, hypothesis, accepted, search, tested, found,
          queue, attempted, exitCode, calls, heap, jobs,
          args, command, props, params>>

\* ------------------------------------------------------------------ bounds

\* Largest entry_count of a generated asset table.
MaxEntries == 3
\* Largest number of asset bytes that follow the largest table.
MaxData == 8

\* ------------------------------------------------------------- Buffer (node)

Thrown == [status |-> "error"]
\* A value not yet computed.
None == [status |-> "none"]

Min(a, b) == IF a < b THEN a ELSE b
Max(a, b) == IF a > b THEN a ELSE b

\* Buffer.readUInt32LE(off) throws ERR_OUT_OF_RANGE unless off..off+3 lie in the buffer.
CanReadUInt32LE(buf, off) == off >= 0 /\ off + 4 <= Len(buf)

\* A number of the code that may not fit the 32-bit integers of the model
\* checker is held in two parts: the number n is [hi |-> n \div 65536,
\* lo |-> n % 65536], lo in 0..65535, hi negative for a negative number.
\* The code's numbers are doubles, exact far beyond the values that occur.
Wide(n) == [hi |-> n \div 65536, lo |-> n % 65536]
WideOf(h, l) == [hi |-> h + (l \div 65536), lo |-> l % 65536]
WideAdd(a, b) == WideOf(a.hi + b.hi, a.lo + b.lo)
WideSub(a, b) == WideOf(a.hi - b.hi, a.lo - b.lo)
\* a * k for a small integer k.
WideTimes(a, k) == WideOf(a.hi * k, a.lo * k)
WideLess(a, b) == a.hi < b.hi \/ (a.hi = b.hi /\ a.lo < b.lo)

\* The number as an integer of the model checker; a number beyond +-2^30 is
\* given as +-2^30, which is the same index into any buffer of the model.
Narrow(w) ==
    IF w.hi >= 16384 THEN 1073741824
    ELSE IF w.hi < -16384 THEN -1073741824
    ELSE w.hi * 65536 + w.lo

\* Buffer.readUInt32LE(off): the value 0..2^32-1 of the four bytes, least
\* significant first, as a number in two parts.
ReadUInt32LE(buf, off) ==
    [hi |-> buf[off + 3] + buf[off + 4] * 256, lo |-> buf[off + 1] + buf[off + 2] * 256]

\* The four bytes of an unsigned 32-bit value, least significant first.
U32LE(v) == <<v % 256, (v \div 256) % 256, (v \div 65536) % 256, (v \div 16777216) % 256>>

\* Buffer.subarray(start, end): a negative index counts from the end, both are
\* clamped to the buffer, and an empty range gives an empty buffer.
ClampIndex(len, k) == IF k < 0 THEN Max(len + k, 0) ELSE Min(k, len)

Subarray(buf, start, end) ==
    LET s == ClampIndex(Len(buf), start)
        e == ClampIndex(Len(buf), end)
    IN  IF e > s THEN SubSeq(buf, s + 1, e) ELSE <<>>

\* ------------------------------------------------ AES-128 (node:crypto, FIPS 197)

\* F(v0) with v0 evaluated once: TLC passes operator arguments unevaluated, and a
\* value that is read sixteen times would be computed sixteen times.
Strict(v0, F(_)) == CHOOSE r \in {F(v) : v \in {v0}} : TRUE

\* A function over 1..n as a sequence whose elements are computed once.
AsSeq(f) == Tail(<<0>> \o f)

XorNibble ==
    <<<<0, 1, 2, 3, 4, 5, 6, 7, 8, 9, 10, 11, 12, 13, 14, 15>>,
      <<1, 0, 3, 2, 5, 4, 7, 6, 9, 8, 11, 10, 13, 12, 15, 14>>,
      <<2, 3, 0, 1, 6, 7, 4, 5, 10, 11, 8, 9, 14, 15, 12, 13>>,
      <<3, 2, 1, 0, 7, 6, 5, 4, 11, 10, 9, 8, 15, 14, 13, 12>>,
      <<4, 5, 6, 7, 0, 1, 2, 3, 12, 13, 14, 15, 8, 9, 10, 11>>,
      <<5, 4, 7, 6, 1, 0, 3, 2, 13, 12, 15, 14, 9, 8, 11, 10>>,
      <<6, 7, 4, 5, 2, 3, 0, 1, 14, 15, 12, 13, 10, 11, 8, 9>>,
      <<7, 6, 5, 4, 3, 2, 1, 0, 15, 14, 13, 12, 11, 10, 9, 8>>,
      <<8, 9, 10, 11, 12, 13, 14, 15, 0, 1, 2, 3, 4, 5, 6, 7>>,
      <<9, 8, 11, 10, 13, 12, 15, 14, 1, 0, 3, 2, 5, 4, 7, 6>>,
      <<10, 11, 8, 9, 14, 15, 12, 13, 2, 3, 0, 1, 6, 7, 4, 5>>,
      <<11, 10, 9, 8, 15, 14, 13, 12, 3, 2, 1, 0, 7, 6, 5, 4>>,
      <<12, 13, 14, 15, 8, 9, 10, 11, 4, 5, 6, 7, 0, 1, 2, 3>>,
      <<13, 12, 15, 14, 9, 8, 11, 10, 5, 4, 7, 6, 1, 0, 3, 2>>,
      <<14, 15, 12, 13, 10, 11, 8, 9, 6, 7, 4, 5, 2, 3, 0, 1>>,
      <<15, 14, 13, 12, 11, 10, 9, 8, 7, 6, 5, 4, 3, 2, 1, 0>>>>

\* Bitwise exclusive or of two bytes.
Xor8(a, b) ==
    XorNibble[(a \div 16) + 1][(b \div 16) + 1] * 16 + XorNibble[(a % 16) + 1][(b % 16) + 1]

\* Bytewise exclusive or of two equally long byte sequences.
XorBytes(x0, y0) ==
    Strict(<<x0, y0>>, LAMBDA p : AsSeq([i \in 1..Len(p[1]) |-> Xor8(p[1][i], p[2][i])]))

SBox ==
    <<99, 124, 119, 123, 242, 107, 111, 197, 48, 1, 103, 43, 254, 215, 171, 118,
      202, 130, 201, 125, 250, 89, 71, 240, 173, 212, 162, 175, 156, 164, 114, 192,
      183, 253, 147, 38, 54, 63, 247, 204, 52, 165, 229, 241, 113, 216, 49, 21,
      4, 199, 35, 195, 24, 150, 5, 154, 7, 18, 128, 226, 235, 39, 178, 117,
      9, 131, 44, 26, 27, 110, 90, 160, 82, 59, 214, 179, 41, 227, 47, 132,
      83, 209, 0, 237, 32, 252, 177, 91, 106, 203, 190, 57, 74, 76, 88, 207,
      208, 239, 170, 251, 67, 77, 51, 133, 69, 249, 2, 127, 80, 60, 159, 168,
      81, 163, 64, 143, 146, 157, 56, 245, 188, 182, 218, 33, 16, 255, 243, 210,
      205, 12, 19, 236, 95, 151, 68, 23, 196, 167, 126, 61, 100, 93, 25, 115,
      96, 129, 79, 220, 34, 42, 144, 136, 70, 238, 184, 20, 222, 94, 11, 219,
      224, 50, 58, 10, 73, 6, 36, 92, 194, 211, 172, 98, 145, 149, 228, 121,
      231, 200, 55, 109, 141, 213, 78, 169, 108, 86, 244, 234, 101, 122, 174, 8,
      186, 120, 37, 46, 28, 166, 180, 198, 232, 221, 116, 31, 75, 189, 139, 138,
      112, 62, 181, 102, 72, 3, 246, 14, 97, 53, 87, 185, 134, 193, 29, 158,
      225, 248, 152, 17, 105, 217, 142, 148, 155, 30, 135, 233, 206, 85, 40, 223,
      140, 161, 137, 13, 191, 230, 66, 104, 65, 153, 45, 15, 176, 84, 187, 22>>

InvSBox ==
    <<82, 9, 106, 213, 48, 54, 165, 56, 191, 64, 163, 158, 129, 243, 215, 251,
      124, 227, 57, 130, 155, 47, 255, 135, 52, 142, 67, 68, 196, 222, 233, 203,
      84, 123, 148, 50, 166, 194, 35, 61, 238, 76, 149, 11, 66, 250, 195, 78,
      8, 46, 161, 102, 40, 217, 36, 178, 118, 91, 162, 73, 109, 139, 209, 37,
      114, 248, 246, 100, 134, 104, 152, 22, 212, 164, 92, 204, 93, 101, 182, 146,
      108, 112, 72, 80, 253, 237, 185, 218, 94, 21, 70, 87, 167, 141, 157, 132,
      144, 216, 171, 0, 140, 188, 211, 10, 247, 228, 88, 5, 184, 179, 69, 6,
      208, 44, 30, 143, 202, 63, 15, 2, 193, 175, 189, 3, 1, 19, 138, 107,
      58, 145, 17, 65, 79, 103, 220, 234, 151, 242, 207, 206, 240, 180, 230, 115,
      150, 172, 116, 34, 231, 173, 53, 133, 226, 249, 55, 232, 28, 117, 223, 110,
      71, 241, 26, 113, 29, 41, 197, 137, 111, 183, 98, 14, 170, 24, 190, 27,
      252, 86, 62, 75, 198, 210, 121, 32, 154, 219, 192, 254, 120, 205, 90, 244,
      31, 221, 168, 51, 136, 7, 199, 49, 177, 18, 16, 89, 39, 128, 236, 95,
      96, 81, 127, 169, 25, 181, 74, 13, 45, 229, 122, 159, 147, 201, 156, 239,
      160, 224, 59, 77, 174, 42, 245, 176, 200, 235, 187, 60, 131, 83, 153, 97,
      23, 43, 4, 126, 186, 119, 214, 38, 225, 105, 20, 99, 85, 33, 12, 125>>

\* Multiplication by x in GF(2^8) modulo x^8 + x^4 + x^3 + x + 1.
XTime(a) == IF a >= 128 THEN Xor8((2 * a) % 256, 27) ELSE 2 * a

GMul2(a) == XTime(a)
GMul3(a) == Xor8(XTime(a), a)
GMul9(a) == Xor8(XTime(XTime(XTime(a))), a)
GMul11(a) == Xor8(Xor8(XTime(XTime(XTime(a))), XTime(a)), a)
GMul13(a) == Xor8(Xor8(XTime(XTime(XTime(a))), XTime(XTime(a))), a)
GMul14(a) == Xor8(Xor8(XTime(XTime(XTime(a))), XTime(XTime(a))), XTime(a))

Xor4(a, b, c, d) == Xor8(Xor8(a, b), Xor8(c, d))

\* The next four bytes of the key schedule after the bytes w.
NextWord(w, rcon) ==
    LET n == Len(w)
        t == IF n % 16 = 0
             THEN <<Xor8(SBox[w[n - 2] + 1], rcon), SBox[w[n - 1] + 1],
                    SBox[w[n] + 1], SBox[w[n - 3] + 1]>>
             ELSE <<w[n - 3], w[n - 2], w[n - 1], w[n]>>
    IN  <<Xor8(w[n - 15], t[1]), Xor8(w[n - 14], t[2]),
          Xor8(w[n - 13], t[3]), Xor8(w[n - 12], t[4])>>

\* The key schedule: 11 round keys of 16 bytes, as one sequence of 176 bytes.
RECURSIVE ExpandKeyFrom(_, _)
ExpandKeyFrom(w0, rcon0) ==
    Strict(<<w0, rcon0>>, LAMBDA p :
        IF Len(p[1]) >= 176 THEN p[1]
        ELSE ExpandKeyFrom(p[1] \o NextWord(p[1], p[2]),
                           IF Len(p[1]) % 16 = 0 THEN XTime(p[2]) ELSE p[2]))

ExpandKey(key) == ExpandKeyFrom(key, 1)

RoundKey(w, r) == SubSeq(w, 16 * r + 1, 16 * r + 16)

\* The state is 16 bytes in input order: byte i (0-based) is row i % 4, column i / 4.
InvShiftRows(s0) ==
    Strict(s0, LAMBDA s : AsSeq([i \in 1..16 |->
        s[((i - 1) % 4) + 4 * ((((i - 1) \div 4) + 4 - ((i - 1) % 4)) % 4) + 1]]))
ShiftRows(s0) ==
    Strict(s0, LAMBDA s : AsSeq([i \in 1..16 |->
        s[((i - 1) % 4) + 4 * ((((i - 1) \div 4) + ((i - 1) % 4)) % 4) + 1]]))
InvSubBytes(s0) == Strict(s0, LAMBDA s : AsSeq([i \in 1..16 |-> InvSBox[s[i] + 1]]))
SubBytes(s0) == Strict(s0, LAMBDA s : AsSeq([i \in 1..16 |-> SBox[s[i] + 1]]))

InvMixColumns(s0) ==
    Strict(s0, LAMBDA s : AsSeq([i \in 1..16 |->
        LET c == 4 * ((i - 1) \div 4)
            r == (i - 1) % 4
        IN  Xor4(GMul14(s[c + r + 1]), GMul11(s[c + ((r + 1) % 4) + 1]),
                 GMul13(s[c + ((r + 2) % 4) + 1]), GMul9(s[c + ((r + 3) % 4) + 1]))]))

MixColumns(s0) ==
    Strict(s0, LAMBDA s : AsSeq([i \in 1..16 |->
        LET c == 4 * ((i - 1) \div 4)
            r == (i - 1) % 4
        IN  Xor4(GMul2(s[c + r + 1]), GMul3(s[c + ((r + 1) % 4) + 1]),
                 s[c + ((r + 2) % 4) + 1], s[c + ((r + 3) % 4) + 1])]))

\* Rounds r, r-1, .., 0 of the inverse cipher.
RECURSIVE InvRounds(_, _, _)
InvRounds(s0, w, r) ==
    Strict(XorBytes(InvSubBytes(InvShiftRows(s0)), RoundKey(w, r)), LAMBDA t :
        IF r = 0 THEN t ELSE InvRounds(InvMixColumns(t), w, r - 1))

\* AES-128 decryption of one 16-byte block.
AesDecryptBlock(key, block) ==
    Strict(ExpandKey(key), LAMBDA w :
        InvRounds(XorBytes(block, RoundKey(w, 10)), w, 9))

\* Rounds r, r+1, .., 10 of the cipher.
RECURSIVE Rounds(_, _, _)
Rounds(s0, w, r) ==
    Strict(ShiftRows(SubBytes(s0)), LAMBDA t :
        IF r = 10 THEN XorBytes(t, RoundKey(w, 10))
        ELSE Rounds(XorBytes(MixColumns(t), RoundKey(w, r)), w, r + 1))

\* AES-128 encryption of one 16-byte block.
AesEncryptBlock(key, block) ==
    Strict(ExpandKey(key), LAMBDA w :
        Rounds(XorBytes(block, RoundKey(w, 0)), w, 1))

\* ------------------------------------- createDecipheriv("aes-128-cbc"), decrypt

\* KEY and IV: the ASCII bytes of "eibohjeCh6uegahf" and "miefeinuShu9eilo".
KEY == <<101, 105, 98, 111, 104, 106, 101, 67, 104, 54, 117, 101, 103, 97, 104, 102>>
IV == <<109, 105, 101, 102, 101, 105, 110, 117, 83, 104, 117, 57, 101, 105, 108, 111>>

\* The block size of AES, in bytes.
BlockSize == 16

\* CBC decryption of the whole blocks of ct: each block is deciphered and xored
\* with the block before it, the first with the IV.
RECURSIVE CbcDecryptFrom(_, _, _, _)
CbcDecryptFrom(key, prev0, ct0, out0) ==
    Strict(<<prev0, ct0, out0>>, LAMBDA p :
        IF Len(p[2]) < BlockSize THEN p[3]
        ELSE CbcDecryptFrom(key, SubSeq(p[2], 1, BlockSize),
                 SubSeq(p[2], BlockSize + 1, Len(p[2])),
                 p[3] \o XorBytes(AesDecryptBlock(key, SubSeq(p[2], 1, BlockSize)), p[1])))

\* createDecipheriv throws unless the key and the IV are 16 bytes long.
ValidCipherArgs(key, iv) == Len(key) = BlockSize /\ Len(iv) = BlockSize

\* decipher.update(chunk) with auto padding off: the plaintext of every whole
\* block; a trailing partial block is kept for final().
DecipherUpdate(key, iv, chunk) == CbcDecryptFrom(key, iv, chunk, <<>>)

\* decipher.final() with auto padding off, after total bytes of input: it throws
\* (wrong final block length) on a partial block, and else returns no bytes.
DecipherFinal(total) ==
    IF total % BlockSize # 0 THEN Thrown ELSE [status |-> "ok", data |-> <<>>]

\* decrypt with auto padding left on: final() checks and strips PKCS#7 padding.
DecryptAutoPadding(body) ==
    LET plain == DecipherUpdate(KEY, IV, body)
        pad == plain[Len(plain)]
    IN  IF Len(body) % BlockSize # 0 \/ Len(body) = 0 THEN Thrown
        ELSE IF pad \notin 1..BlockSize THEN Thrown
        ELSE IF \E k \in 0..(pad - 1) : plain[Len(plain) - k] # pad THEN Thrown
        ELSE [status |-> "ok", data |-> SubSeq(plain, 1, Len(plain) - pad)]

\* decrypt, lines 25-29.
Decrypt(body) ==
    LET final == DecipherFinal(Len(body))
    IN  IF final.status # "ok" THEN Thrown
        ELSE [status |-> "ok", data |-> DecipherUpdate(KEY, IV, body) \o final.data]

\* CBC encryption of whole blocks (how a container body is made).
RECURSIVE CbcEncryptFrom(_, _, _, _)
CbcEncryptFrom(key, prev0, pt0, out0) ==
    Strict(<<prev0, pt0, out0>>, LAMBDA p :
        IF Len(p[2]) < BlockSize THEN p[3]
        ELSE Strict(AesEncryptBlock(key, XorBytes(SubSeq(p[2], 1, BlockSize), p[1])),
                 LAMBDA c : CbcEncryptFrom(key, c,
                                SubSeq(p[2], BlockSize + 1, Len(p[2])), p[3] \o c)))

CbcEncrypt(key, iv, plain) == CbcEncryptFrom(key, iv, plain, <<>>)

\* ------------------------------------------------------------- decompressLzma

\* LZMA.decompress belongs to the lzma package, which is not among the
\* sources.  It is modelled as the raw LZMA1 decoder that section 4.3 of the
\* specification and the pipeline of the writeup (part_000, lines 267-274)
\* describe: the properties byte and the dictionary size are read from the
\* 13-byte header, the size field is not used, and the payload is decoded up
\* to its end marker or to the end of the input.

\* The properties byte (lc = 3, lp = 0, pb = 2) and dictionary size of the packs.
LzmaProps == 93
LzmaDictSize == 16384
\* Length of the stream header: properties, dictionary size, uncompressed size.
LzmaHeaderLen == 13

\* A derivation that takes lp modulo 4.
LzmaParamsNarrowLp(p) ==
    [lc |-> p % 9, lp |-> (p \div 9) % 4, pb |-> (p \div 9) \div 5]

\* The writeup's derivation: lc, lp, pb = props % 9, (props // 9) % 5,
\* (props // 9) // 5.  The library derives them the same way.
LzmaParams(p) ==
    [lc |-> p % 9, lp |-> (p \div 9) % 5, pb |-> (p \div 9) \div 5]

\* The range coder computes with unsigned 32-bit numbers, held in two parts of
\* 16 bits: [hi, lo] is hi * 65536 + lo, modulo 2^32.
U32(h, l) == [hi |-> (h + (l \div 65536)) % 65536, lo |-> l % 65536]
U32Sub(a, b) == U32(a.hi - b.hi, a.lo - b.lo)
\* (a << 8) | b for a byte b.
U32Shl8(a, b) == [hi |-> (a.hi % 256) * 256 + (a.lo \div 256), lo |-> (a.lo % 256) * 256 + b]
\* a >>> 1.
U32Shr1(a) == [hi |-> a.hi \div 2, lo |-> (a.hi % 2) * 32768 + (a.lo \div 2)]
U32Max == [hi |-> 65535, lo |-> 65535]

\* (range >>> 11) * prob: the bound between the two halves of the range.
Bound(range, prob) ==
    LET r == range.hi * 32 + (range.lo \div 2048)
    IN  U32((r \div 65536) * prob, (r % 65536) * prob)

\* The probability models are kept by name and index; a model not yet used
\* holds 1024.
Prob(probs, key) == IF key \in DOMAIN probs THEN probs[key] ELSE 1024
SetProb(probs, key, p) == (key :> p) @@ probs
ProbUp(p) == p + ((2048 - p) \div 32)
ProbDown(p) == p - (p \div 32)

\* The range decoder reads the next byte of its stream when less than 2^24 is
\* left of the range.  At the end of the input there is no byte to read:
\* d.past tells that, and a bit decoded after that is a bit the input does not
\* hold (d.late).
Refill(d) ==
    IF d.range.hi >= 256 THEN d
    ELSE IF d.pos > Len(d.input)
         THEN [d EXCEPT !.range = U32Shl8(d.range, 0), !.code = U32Shl8(d.code, 0),
                        !.past = TRUE]
         ELSE [d EXCEPT !.range = U32Shl8(d.range, 0),
                        !.code = U32Shl8(d.code, d.input[d.pos]),
                        !.pos = d.pos + 1]

Late(d) == IF d.past THEN [d EXCEPT !.late = TRUE] ELSE d

\* One bit of the range decoder under the model of the key: the bit is left
\* in d.bit.
DecodeBit(d0, key) ==
    LET d == Late(d0)
        p == Prob(d.probs, key)
        bound == Bound(d.range, p)
    IN  IF WideLess(d.code, bound)
        THEN Refill([d EXCEPT !.range = bound,
                              !.probs = SetProb(d.probs, key, ProbUp(p)),
                              !.bit = 0])
        ELSE Refill([d EXCEPT !.range = U32Sub(d.range, bound),
                              !.code = U32Sub(d.code, bound),
                              !.probs = SetProb(d.probs, key, ProbDown(p)),
                              !.bit = 1])

\* A bit tree of n levels over the models name[base + m]: the symbol is left in
\* d.sym, with the leading 1 of the tree still in it.
RECURSIVE TreeDecode(_, _, _, _, _)
TreeDecode(d, name, base, m, n) ==
    IF n = 0 THEN [d EXCEPT !.sym = m]
    ELSE Strict(DecodeBit(d, <<name, base + m>>),
                LAMBDA e : TreeDecode(e, name, base, 2 * m + e.bit, n - 1))

\* The reverse bit tree: the first bit decoded is the lowest of the symbol.
RECURSIVE ReverseDecode(_, _, _, _, _, _, _)
ReverseDecode(d, name, base, m, k, n, sym) ==
    IF k = n THEN [d EXCEPT !.sym = sym]
    ELSE Strict(DecodeBit(d, <<name, base + m>>),
                LAMBDA e : ReverseDecode(e, name, base, 2 * m + e.bit, k + 1, n,
                                         sym + e.bit * (2 ^ k)))

\* One bit of equal probability, shifted into d.wide: the sign of the 32-bit
\* difference code - range tells the bit.
DirectBit(d0) ==
    LET d == Late(d0)
        range == U32Shr1(d.range)
        diff == U32Sub(d.code, range)
        t == IF diff.hi >= 32768 THEN 1 ELSE 0
    IN  Refill([d EXCEPT !.range = range,
                         !.code = IF t = 0 THEN diff ELSE d.code,
                         !.wide = U32(d.wide.hi * 2, d.wide.lo * 2 + (1 - t))])

\* DecodeDirectBits: n bits of equal probability, the highest first.
RECURSIVE DirectBits(_, _)
DirectBits(d, n) ==
    IF n = 0 THEN d
    ELSE IF n = 1 THEN DirectBit(d)
    ELSE Strict(DirectBits(d, n \div 2), LAMBDA e : DirectBits(e, n - (n \div 2)))

\* The length decoder named by names: 0..7 from the low tree, 8..15 from the
\* mid tree, 16..271 from the high tree.
LenNames == [choice |-> "LenChoice", low |-> "LenLow", mid |-> "LenMid", high |-> "LenHigh"]
RepLenNames ==
    [choice |-> "RepLenChoice", low |-> "RepLenLow", mid |-> "RepLenMid",
     high |-> "RepLenHigh"]

LenDecode(d, names, posState) ==
    Strict(DecodeBit(d, <<names.choice, 0>>), LAMBDA a :
        IF a.bit = 0
        THEN Strict(TreeDecode(a, names.low, posState * 8, 1, 3),
                    LAMBDA b : [b EXCEPT !.sym = b.sym - 8])
        ELSE Strict(DecodeBit(a, <<names.choice, 1>>), LAMBDA c :
                 IF c.bit = 0
                 THEN Strict(TreeDecode(c, names.mid, posState * 8, 1, 3),
                             LAMBDA b : [b EXCEPT !.sym = 8 + b.sym - 8])
                 ELSE Strict(TreeDecode(c, names.high, 0, 1, 8),
                             LAMBDA b : [b EXCEPT !.sym = 16 + b.sym - 256])))

\* DecodeWithMatchByte: the bits of the match byte choose the models until a
\* decoded bit differs from them.
RECURSIVE LiteralMatched(_, _, _, _, _)
LiteralMatched(d, base, sym, matchByte, n) ==
    IF n = 0 THEN [d EXCEPT !.sym = sym]
    ELSE LET matchBit == (matchByte \div (2 ^ (n - 1))) % 2
         IN  Strict(DecodeBit(d, <<"Literal", base + (1 + matchBit) * 256 + sym>>),
                    LAMBDA e :
                        IF e.bit = matchBit
                        THEN LiteralMatched(e, base, 2 * sym + e.bit, matchByte, n - 1)
                        ELSE TreeDecode(e, "Literal", base, 2 * sym + e.bit, n - 1))

\* The state after a literal, a match, a repeated match and a short repeat.
StateUpdateChar(s) == IF s < 4 THEN 0 ELSE IF s < 10 THEN s - 3 ELSE s - 6
StateUpdateMatch(s) == IF s < 7 THEN 7 ELSE 10
StateUpdateRep(s) == IF s < 7 THEN 8 ELSE 11
StateUpdateShortRep(s) == IF s < 7 THEN 9 ELSE 11

\* The byte written distance + 1 places before the end of the output.
GetByte(out, distance) == out[Len(out) - distance]

\* CopyBlock: len bytes are copied from distance + 1 places back, one at a
\* time, so a block longer than the distance repeats itself.
CopyBlock(out, distance, len) ==
    out \o [j \in 1..len |-> out[Len(out) - distance + ((j - 1) % (distance + 1))]]

\* A literal: lines of CodeOneChunk after a 0 bit of IsMatch.
DecodeLiteral(d, lc, lp) ==
    LET n == Len(d.out)
        coder == (n % (2 ^ lp)) * (2 ^ lc) + (d.prev \div (2 ^ (8 - lc)))
    IN  Strict(IF d.state < 7
               THEN TreeDecode(d, "Literal", coder * 768, 1, 8)
               ELSE LiteralMatched(d, coder * 768, 1, GetByte(d.out, d.rep0), 8),
               LAMBDA e : [e EXCEPT !.prev = e.sym % 256,
                                    !.out = Append(e.out, e.sym % 256),
                                    !.state = StateUpdateChar(e.state)])

\* The end of a match: a distance that reaches before the output or beyond
\* the dictionary is a structural error; else the block is copied.
FinishMatch(d, len, dictCheck) ==
    IF d.rep0 >= Len(d.out) \/ d.rep0 >= dictCheck
    THEN [d EXCEPT !.status = "corrupted"]
    ELSE Strict(CopyBlock(d.out, d.rep0, len), LAMBDA o :
             [d EXCEPT !.out = o, !.prev = o[Len(o)]])

\* The distance of a match from its slot.  A distance of 2^31 or more is the
\* end marker when it is 2^32 - 1 and corrupt input otherwise; d.wide holds the
\* distance as a number in two parts.
DecodeDistance(d, len) ==
    LET lenState == IF len - 2 < 4 THEN len - 2 ELSE 3
    IN  Strict(TreeDecode(d, "PosSlot", lenState * 64, 1, 6), LAMBDA a :
            LET posSlot == a.sym - 64
                numDirectBits == (posSlot \div 2) - 1
            IN  IF posSlot < 4 THEN [a EXCEPT !.wide = Wide(posSlot)]
                ELSE IF posSlot < 14
                THEN LET start == (2 + (posSlot % 2)) * (2 ^ numDirectBits)
                     IN  Strict(ReverseDecode(a, "Pos", start - posSlot - 1, 1, 0,
                                              numDirectBits, 0),
                                LAMBDA b : [b EXCEPT !.wide = Wide(start + b.sym)])
                ELSE Strict(DirectBits([a EXCEPT !.wide = Wide(0)], numDirectBits - 4),
                            LAMBDA b :
                         Strict(ReverseDecode(b, "Align", 0, 1, 0, 4, 0), LAMBDA c :
                             \* (2 | posSlot & 1) << numDirectBits, plus the direct
                             \* bits << 4, plus the align bits, in 32 bits
                             LET top == IF numDirectBits >= 16
                                        THEN U32((2 + (posSlot % 2))
                                                    * (2 ^ (numDirectBits - 16)), 0)
                                        ELSE U32(0, (2 + (posSlot % 2))
                                                    * (2 ^ numDirectBits))
                                 direct == U32(b.wide.hi * 16, b.wide.lo * 16)
                             IN  [c EXCEPT !.wide =
                                     U32(top.hi + direct.hi, top.lo + direct.lo + c.sym)])))

\* A match or a repeated match: lines of CodeOneChunk after a 1 bit of IsMatch.
DecodeMatch(d, posState, dictCheck) ==
    Strict(DecodeBit(d, <<"IsRep", d.state>>), LAMBDA a :
        IF a.bit = 0
        THEN \* a match with a new distance
             Strict(LenDecode(a, LenNames, posState), LAMBDA b :
                 Strict(DecodeDistance([b EXCEPT !.state = StateUpdateMatch(b.state),
                                                 !.rep3 = b.rep2, !.rep2 = b.rep1,
                                                 !.rep1 = b.rep0],
                                       b.sym + 2),
                        LAMBDA c :
                            IF c.wide = U32Max
                            THEN \* the end marker: the decoder must have used up
                                 \* its code
                                 IF c.past \/ c.code = Wide(0)
                                 THEN [c EXCEPT !.status = "end"]
                                 ELSE [c EXCEPT !.status = "corrupted"]
                            ELSE IF c.wide.hi >= 32768 THEN [c EXCEPT !.status = "corrupted"]
                            ELSE FinishMatch([c EXCEPT !.rep0 = Narrow(c.wide)],
                                             b.sym + 2, dictCheck)))
        ELSE Strict(DecodeBit(a, <<"IsRepG0", a.state>>), LAMBDA g0 :
                 IF g0.bit = 0
                 THEN Strict(DecodeBit(g0, <<"IsRep0Long", g0.state * 16 + posState>>),
                             LAMBDA l :
                                 IF l.bit = 0
                                 THEN FinishMatch([l EXCEPT !.state =
                                                      StateUpdateShortRep(l.state)],
                                                  1, dictCheck)
                                 ELSE Strict(LenDecode(l, RepLenNames, posState), LAMBDA b :
                                          FinishMatch([b EXCEPT !.state =
                                                          StateUpdateRep(b.state)],
                                                      b.sym + 2, dictCheck)))
                 ELSE Strict(DecodeBit(g0, <<"IsRepG1", g0.state>>), LAMBDA g1 :
                          Strict(IF g1.bit = 0
                                 THEN [g1 EXCEPT !.rep1 = g1.rep0, !.rep0 = g1.rep1]
                                 ELSE Strict(DecodeBit(g1, <<"IsRepG2", g1.state>>),
                                             LAMBDA g2 :
                                                 IF g2.bit = 0
                                                 THEN [g2 EXCEPT !.rep2 = g2.rep1,
                                                                 !.rep1 = g2.rep0,
                                                                 !.rep0 = g2.rep2]
                                                 ELSE [g2 EXCEPT !.rep3 = g2.rep2,
                                                                 !.rep2 = g2.rep1,
                                                                 !.rep1 = g2.rep0,
                                                                 !.rep0 = g2.rep3]),
                                 LAMBDA r :
                                     Strict(LenDecode(r, RepLenNames, posState), LAMBDA b :
                                         FinishMatch([b EXCEPT !.state =
                                                         StateUpdateRep(b.state)],
                                                     b.sym + 2, dictCheck))))))

\* One literal or one match.  A chunk that needs a bit the input does not
\* hold is not decoded: the decoder stops before it, for want of input.
CodeOneChunk(d, coding, dictCheck) ==
    LET posState == Len(d.out) % (2 ^ coding.pb)
    IN  Strict(DecodeBit(d, <<"IsMatch", d.state * 16 + posState>>), LAMBDA a :
            Strict(IF a.bit = 0 THEN DecodeLiteral(a, coding.lc, coding.lp)
                   ELSE DecodeMatch(a, posState, dictCheck),
                   LAMBDA e : IF e.late THEN [d EXCEPT !.status = "starved"] ELSE e))

\* The decoder stops after the end marker, after a structural error and at
\* the end of the input.
Stopped(d) == d.status # "run"

\* A number of chunks that no decoder reaches before it stops.  A chunk
\* decodes one bit at least and a bit leaves at most 2017/2048 of the range,
\* so fewer than BitsPerByte bits are decoded between two reads of the input.
BitsPerByte == 400
ChunkFuel(stream) == BitsPerByte * (Len(stream) + 8)

\* At most n chunks, decoded one after the other.
RECURSIVE CodeChunks(_, _, _, _)
CodeChunks(d, n, coding, dictCheck) ==
    IF Stopped(d) \/ n = 0 THEN d
    ELSE IF n = 1 THEN CodeOneChunk(d, coding, dictCheck)
    ELSE Strict(CodeChunks(d, n \div 2, coding, dictCheck),
                LAMBDA e : CodeChunks(e, n - (n \div 2), coding, dictCheck))

\* The range decoder starts with five bytes of the payload as its code; the
\* first of them is shifted out of the 32 bits.
RECURSIVE InitCode(_, _)
InitCode(d, n) ==
    IF n = 0 THEN d
    ELSE InitCode(IF d.pos > Len(d.input) THEN [d EXCEPT !.past = TRUE]
                  ELSE [d EXCEPT !.code = U32Shl8(d.code, d.input[d.pos]),
                                 !.pos = d.pos + 1],
                  n - 1)

\* The decoder before its first chunk, on the bytes after the header.
NewDecoder(stream) ==
    InitCode([input |-> stream, pos |-> LzmaHeaderLen + 1,
              code |-> Wide(0), range |-> U32Max, probs |-> <<>>,
              bit |-> 0, sym |-> 0, wide |-> Wide(0),
              out |-> <<>>, prev |-> 0, state |-> 0,
              rep0 |-> 0, rep1 |-> 0, rep2 |-> 0, rep3 |-> 0, status |-> "run",
              past |-> FALSE, late |-> FALSE], 5)

\* The dictionary the decoder keeps for a declared size: 4096 bytes at least,
\* a multiple of 16.
DictMin == 4096
DictCapacity(dict) ==
    LET n == Max(Narrow(dict), DictMin)
    IN  n + ((16 - (n % 16)) % 16)

\* Buffer.from(result), line 35: the bytes of the array, each taken modulo 256.
BufferFrom(array) == [j \in 1..Len(array) |-> array[j] % 256]

\* LZMA.decompress on the bytes of line 33: the decoded bytes, or an error for
\* an input without the properties byte and the dictionary size, for
\* properties the decoder refuses (lc + lp > 4, pb > 4), for a payload whose
\* first byte is not 0 and for a structural error in the payload.  A payload
\* that ends before its end marker gives the bytes decoded up to there.
LzmaDecode(stream) ==
    IF Len(stream) < 5 THEN Thrown
    ELSE LET coding == LzmaParams(stream[1])
             dict == ReadUInt32LE(stream, 1)
         IN  IF coding.lc + coding.lp > 4 \/ coding.pb > 4 THEN Thrown
             ELSE IF Len(stream) > LzmaHeaderLen /\ stream[LzmaHeaderLen + 1] # 0
             THEN Thrown
             ELSE Strict(CodeChunks(NewDecoder(stream), ChunkFuel(stream), coding,
                                    DictCapacity(dict)),
                         LAMBDA d :
                             IF d.status = "corrupted" THEN Thrown
                             ELSE [status |-> "ok", data |-> d.out])

\* decompressLzma, lines 31-38: the promise is rejected with the library's
\* error, or resolved with Buffer.from of its result.
DecompressLzma(stream) ==
    Strict(LzmaDecode(stream), LAMBDA r :
        IF r.status # "ok" THEN Thrown
        ELSE [status |-> "ok", data |-> BufferFrom(r.data)])

\* ------------------------------------------------------ generated LZMA streams

\* The range encoder: low is a number of 33 bits, held as [hi, lo] with hi up
\* to 2^17; cache and cacheSize hold the bytes a carry can still change.
ShiftLow(e) ==
    LET carry == e.low.hi \div 65536
        next == [hi |-> (e.low.hi % 256) * 256 + (e.low.lo \div 256),
                 lo |-> (e.low.lo % 256) * 256]
    IN  IF carry = 1 \/ e.low.hi < 65280
        THEN [e EXCEPT !.out = e.out \o <<(e.cache + carry) % 256>>
                                  \o [k \in 1..(e.cacheSize - 1) |-> (255 + carry) % 256],
                       !.cache = (e.low.hi \div 256) % 256,
                       !.cacheSize = 1,
                       !.low = next]
        ELSE [e EXCEPT !.cacheSize = e.cacheSize + 1, !.low = next]

\* Encode of the range encoder: one bit under the model of the key.
EncodeBit(e, key, bit) ==
    LET p == Prob(e.probs, key)
        bound == Bound(e.range, p)
        f == IF bit = 0
             THEN [e EXCEPT !.range = bound, !.probs = SetProb(e.probs, key, ProbUp(p))]
             ELSE [e EXCEPT !.low = [hi |-> e.low.hi + bound.hi
                                               + ((e.low.lo + bound.lo) \div 65536),
                                     lo |-> (e.low.lo + bound.lo) % 65536],
                            !.range = U32Sub(e.range, bound),
                            !.probs = SetProb(e.probs, key, ProbDown(p))]
    IN  IF f.range.hi >= 256 THEN f
        ELSE ShiftLow([f EXCEPT !.range = U32Shl8(f.range, 0)])

\* The n low bits of sym through the bit tree name[base + m], the highest first.
RECURSIVE TreeEncode(_, _, _, _, _, _)
TreeEncode(e, name, base, m, sym, n) ==
    IF n = 0 THEN e
    ELSE LET bit == (sym \div (2 ^ (n - 1))) % 2
         IN  Strict(EncodeBit(e, <<name, base + m>>, bit),
                    LAMBDA f : TreeEncode(f, name, base, 2 * m + bit, sym, n - 1))

\* The byte at place i as a literal: the stream has no match, so the state of
\* the coder stays 0.
EncodeLiteral(e, bytes, i, coding) ==
    LET n == i - 1
        prev == IF n = 0 THEN 0 ELSE bytes[n]
        coder == (n % (2 ^ coding.lp)) * (2 ^ coding.lc) + (prev \div (2 ^ (8 - coding.lc)))
    IN  Strict(EncodeBit(e, <<"IsMatch", n % (2 ^ coding.pb)>>, 0),
               LAMBDA f : TreeEncode(f, "Literal", coder * 768, 1, bytes[i], 8))

\* The bytes at the places from..to, each as a literal.
RECURSIVE EncodeLiterals(_, _, _, _, _)
EncodeLiterals(e, bytes, from, to, coding) ==
    IF from > to THEN e
    ELSE IF from = to THEN EncodeLiteral(e, bytes, from, coding)
    ELSE Strict(EncodeLiterals(e, bytes, from, (from + to) \div 2, coding),
                LAMBDA f : EncodeLiterals(f, bytes, ((from + to) \div 2) + 1, to, coding))

\* A 1 bit of equal probability: half the range is added to low.
EncodeDirectOne(e) ==
    LET range == U32Shr1(e.range)
        f == [e EXCEPT !.low = [hi |-> e.low.hi + range.hi
                                          + ((e.low.lo + range.lo) \div 65536),
                                lo |-> (e.low.lo + range.lo) % 65536],
                       !.range = range]
    IN  IF f.range.hi >= 256 THEN f
        ELSE ShiftLow([f EXCEPT !.range = U32Shl8(f.range, 0)])

\* n 1 bits of equal probability.
RECURSIVE EncodeDirectOnes(_, _)
EncodeDirectOnes(e, n) ==
    IF n = 0 THEN e
    ELSE IF n = 1 THEN EncodeDirectOne(e)
    ELSE Strict(EncodeDirectOnes(e, n \div 2),
                LAMBDA f : EncodeDirectOnes(f, n - (n \div 2)))

\* n 1 bits through the reverse bit tree name[m].
RECURSIVE ReverseEncodeOnes(_, _, _, _)
ReverseEncodeOnes(e, name, m, n) ==
    IF n = 0 THEN e
    ELSE Strict(EncodeBit(e, <<name, m>>, 1),
                LAMBDA f : ReverseEncodeOnes(f, name, 2 * m + 1, n - 1))

\* The end marker after n literals: a match of the least length, 2, at the
\* distance 2^32 - 1, which is slot 63, 26 direct bits and 4 align bits of 1.
EncodeEndMarker(e, n, coding) ==
    LET posState == n % (2 ^ coding.pb)
    IN  Strict(EncodeBit(e, <<"IsMatch", posState>>, 1), LAMBDA a :
          Strict(EncodeBit(a, <<"IsRep", 0>>, 0), LAMBDA b :
            Strict(EncodeBit(b, <<LenNames.choice, 0>>, 0), LAMBDA c :
              Strict(TreeEncode(c, LenNames.low, posState * 8, 1, 0, 3), LAMBDA f :
                Strict(TreeEncode(f, "PosSlot", 0, 1, 63, 6), LAMBDA g :
                  Strict(EncodeDirectOnes(g, 26), LAMBDA h :
                    ReverseEncodeOnes(h, "Align", 1, 4)))))))

\* The payload: the literals, the end marker, then the five bytes the encoder
\* flushes.
LzmaPayload(bytes) ==
    Strict(EncodeLiterals([low |-> Wide(0), range |-> U32Max, cache |-> 0,
                           cacheSize |-> 1, out |-> <<>>, probs |-> <<>>],
                          bytes, 1, Len(bytes), LzmaParams(LzmaProps)),
           LAMBDA e :
               Strict(EncodeEndMarker(e, Len(bytes), LzmaParams(LzmaProps)), LAMBDA f :
                   ShiftLow(ShiftLow(ShiftLow(ShiftLow(ShiftLow(f))))).out))

\* The stream of an image as the packs hold it: the properties byte, the
\* dictionary size, the length of the image in eight bytes, and the payload.
LzmaStream(img) ==
    <<LzmaProps>> \o U32LE(LzmaDictSize) \o U32LE(Len(img)) \o <<0, 0, 0, 0>>
        \o LzmaPayload(img)

\* ----------------------------------------------------------------- parseHeader

\* Where the body starts (0x1000), and the header fields parseHeader reads
\* (0x104, 0x10a, 0x13a, 0x13e).
HeaderSize == 4096
OffCompressionType == 260
OffBodySize == 266
OffDecompressedSize == 314
OffDestAddress == 318
\* The bytes of the file that parseHeader can reach: 0x13e + 4.
HeadLen == 322
\* compression_type of an AES + LZMA pack.
CompressionLzmaAes == 2

\* The body taken from 0x1001 on.
FileBodyOffByOne(file) == IF file.body = <<>> THEN <<>> ELSE Tail(file.body)

\* A container file is [path, len, head, body]: the path it is read from, its
\* length, its first HeadLen bytes (or all of them, if it is shorter) and its
\* bytes from HeaderSize on.  The header bytes between the two are never read.
FileBody(file) == file.body

\* Line 53 with the IV taken from the file: its first 16 bytes.
DecryptBodyNonceIv(file) ==
    LET body == FileBody(file)
        final == DecipherFinal(Len(body))
    IN  IF final.status # "ok" \/ Len(file.head) < BlockSize THEN Thrown
        ELSE [status |-> "ok",
              data |-> DecipherUpdate(KEY, SubSeq(file.head, 1, BlockSize), body)]

\* Line 53: decrypt(data.subarray(0x1000)).
DecryptBody(file) == Decrypt(FileBody(file))

\* A path is the sequence of its characters, each a string of one character.
Digits == {"0", "1", "2", "3", "4", "5", "6", "7", "8", "9"}
VpPrefix == <<"V", "P", "_">>
UpgInfix == <<"_", "U", "P", "G", "_">>
BinSuffix == <<".", "b", "i", "n">>

StartsWith(s, prefix) ==
    Len(s) >= Len(prefix) /\ SubSeq(s, 1, Len(prefix)) = prefix
EndsWith(s, suffix) ==
    Len(s) >= Len(suffix) /\ SubSeq(s, Len(s) - Len(suffix) + 1, Len(s)) = suffix

\* basename(filename): the slashes at the end of the path are left out, and
\* the characters after the last slash before them are the base name.
Basename(path) ==
    LET named == {k \in 1..Len(path) : path[k] # "/"}
    IN  IF named = {} THEN <<>>
        ELSE LET end == CHOOSE k \in named : \A j \in named : j <= k
                 slashes == {k \in 1..end : path[k] = "/"}
                 start == IF slashes = {} THEN 1
                          ELSE 1 + CHOOSE k \in slashes : \A j \in slashes : j <= k
             IN  SubSeq(path, start, end)

\* The number of digits at the end of s.
TrailingDigits(s) ==
    CHOOSE k \in 0..Len(s) :
        /\ \A j \in (Len(s) - k + 1)..Len(s) : s[j] \in Digits
        /\ (k = Len(s) \/ s[Len(s) - k] \notin Digits)

\* replace(/_UPG_\d+\.bin$/, ""): a name that ends in "_UPG_", one digit or
\* more and ".bin" loses that end; any other name is left as it is.
DropUpgSuffix(name) ==
    IF ~EndsWith(name, BinSuffix) THEN name
    ELSE LET stem == SubSeq(name, 1, Len(name) - Len(BinSuffix))
             k == TrailingDigits(stem)
             front == SubSeq(stem, 1, Len(stem) - k)
         IN  IF k >= 1 /\ EndsWith(front, UpgInfix)
             THEN SubSeq(front, 1, Len(front) - Len(UpgInfix))
             ELSE name

\* Line 41: the base name without a leading "VP_", then without a trailing
\* "_UPG_<digits>.bin".
Language(path) ==
    LET base == Basename(path)
        rest == IF StartsWith(base, VpPrefix)
                THEN SubSeq(base, Len(VpPrefix) + 1, Len(base))
                ELSE base
    IN  DropUpgSuffix(rest)

\* parseHeader, lines 40-50.  The fields are read in the order of the object
\* literal; readUInt32LE throws on a field that does not lie in the file.  The
\* three sizes are numbers in two parts.
ParseHeader(file) ==
    IF ~CanReadUInt32LE(file.head, OffBodySize) THEN Thrown
    ELSE IF ~CanReadUInt32LE(file.head, OffDecompressedSize) THEN Thrown
    ELSE IF ~CanReadUInt32LE(file.head, OffDestAddress) THEN Thrown
    ELSE [status |-> "ok",
          language |-> Language(file.path),
          fileSize |-> file.len,
          bodySize |-> ReadUInt32LE(file.head, OffBodySize),
          compressionType |-> file.head[OffCompressionType + 1],
          decompressedSize |-> ReadUInt32LE(file.head, OffDecompressedSize),
          destAddress |-> ReadUInt32LE(file.head, OffDestAddress)]

\* -------------------------------------------------- extractPrompts: the table

\* The length of a table of numEntries records, numEntries an integer of the
\* model: the layout of the generated images and of the statements.
TableEnd(numEntries) == 8 + numEntries * 8

\* Line 65 without the test for a negative offset.
SkipEntryNoLowerBound(fileOffset, size, length) ==
    WideLess(Wide(length), WideAdd(fileOffset, size))

\* Line 65 with >= for >: an asset that ends with the buffer is skipped.
SkipEntryOffByOne(fileOffset, size, length) ==
    WideLess(fileOffset, Wide(0)) \/ ~WideLess(WideAdd(fileOffset, size), Wide(length))

\* The test of line 65: the entry is skipped when it holds.  The offset and the
\* size are numbers in two parts.
SkipEntry(fileOffset, size, length) ==
    WideLess(fileOffset, Wide(0)) \/ WideLess(Wide(length), WideAdd(fileOffset, size))

\* Line 66 with the index renumbered by output position.
PushPromptRenumbered(prompts, buf, i, size, fileOffset) ==
    Append(prompts, [index |-> Len(prompts), size |-> Narrow(size),
                     data |-> Subarray(buf, Narrow(fileOffset),
                                       Narrow(WideAdd(fileOffset, size)))])

\* Line 66 with the asset cut one byte short.
PushPromptShort(prompts, buf, i, size, fileOffset) ==
    Append(prompts, [index |-> i, size |-> Narrow(size),
                     data |-> Subarray(buf, Narrow(fileOffset),
                                       Narrow(WideAdd(fileOffset, size)) - 1)])

\* Line 66: the entry is pushed under its table position.  An entry that is
\* pushed lies in the buffer, so its size and offsets are integers of the model.
PushPrompt(prompts, buf, i, size, fileOffset) ==
    Append(prompts, [index |-> i, size |-> Narrow(size),
                     data |-> Subarray(buf, Narrow(fileOffset),
                                       Narrow(WideAdd(fileOffset, size)))])

\* The loop with an unreadable record ending it, the prompts so far returned.
RECURSIVE TableLoopPartial(_, _, _, _, _)
TableLoopPartial(buf, numEntries, baseOffset, i, prompts) ==
    IF ~WideLess(Wide(i), numEntries) THEN [status |-> "ok", prompts |-> prompts]
    ELSE LET off == 8 + i * 8
         IN  IF ~CanReadUInt32LE(buf, off) \/ ~CanReadUInt32LE(buf, off + 4)
             THEN [status |-> "ok", prompts |-> prompts]
             ELSE LET size == ReadUInt32LE(buf, off)
                      fileOffset == WideSub(ReadUInt32LE(buf, off + 4), baseOffset)
                  IN  IF SkipEntry(fileOffset, size, Len(buf))
                      THEN TableLoopPartial(buf, numEntries, baseOffset, i + 1, prompts)
                      ELSE TableLoopPartial(buf, numEntries, baseOffset, i + 1,
                               PushPrompt(prompts, buf, i, size, fileOffset))

\* One pass of the for loop of lines 61-67, from entry i on.
RECURSIVE TableLoop(_, _, _, _, _)
TableLoop(buf, numEntries, baseOffset, i, prompts) ==
    IF ~WideLess(Wide(i), numEntries) THEN [status |-> "ok", prompts |-> prompts]
    ELSE LET off == 8 + i * 8
         IN  IF ~CanReadUInt32LE(buf, off) \/ ~CanReadUInt32LE(buf, off + 4) THEN Thrown
             ELSE LET size == ReadUInt32LE(buf, off)
                      fileOffset == WideSub(ReadUInt32LE(buf, off + 4), baseOffset)
                  IN  IF SkipEntry(fileOffset, size, Len(buf))
                      THEN TableLoop(buf, numEntries, baseOffset, i + 1, prompts)
                      ELSE TableLoop(buf, numEntries, baseOffset, i + 1,
                               PushPrompt(prompts, buf, i, size, fileOffset))

\* A parser that takes absolute offsets for offsets into the buffer.
ParseTableNoBase(buf) ==
    IF ~CanReadUInt32LE(buf, 4) THEN Thrown
    ELSE IF ~CanReadUInt32LE(buf, 12) THEN Thrown
    ELSE TableLoop(buf, ReadUInt32LE(buf, 4), Wide(0), 0, <<>>)

\* A parser that reads entry 0's offset only when the table has an entry.
ParseTableGuardedBase(buf) ==
    IF ~CanReadUInt32LE(buf, 4) THEN Thrown
    ELSE LET numEntries == ReadUInt32LE(buf, 4)
             tableEnd == WideAdd(Wide(8), WideTimes(numEntries, 8))
         IN  IF numEntries = Wide(0) THEN [status |-> "ok", prompts |-> <<>>]
             ELSE IF ~CanReadUInt32LE(buf, 12) THEN Thrown
             ELSE TableLoop(buf, numEntries, WideSub(ReadUInt32LE(buf, 12), tableEnd),
                            0, <<>>)

\* Lines 56-68 of extractPrompts, on the decompressed buffer.  numEntries,
\* tableEnd and baseOffset are numbers in two parts.
ParseTable(buf) ==
    IF ~CanReadUInt32LE(buf, 4) THEN Thrown
    ELSE LET numEntries == ReadUInt32LE(buf, 4)
             tableEnd == WideAdd(Wide(8), WideTimes(numEntries, 8))
         IN  IF ~CanReadUInt32LE(buf, 12) THEN Thrown
             ELSE TableLoop(buf, numEntries, WideSub(ReadUInt32LE(buf, 12), tableEnd),
                            0, <<>>)

\* ------------------------------------------------------- generated asset images

\* Absolute offsets live in the voice guidance region, which starts at 0x80000.
RegionBase == 524288

\* The asset byte stored at 0-based position p of an image.
AssetByte(p) == 1 + (p % 100)

EntrySizes == {0, 2}
EntryAbs == {RegionBase + d : d \in {0, 40, 42, 90}}

\* A record's absolute offset is abs + top * 2^24: top is what the region adds
\* to the most significant byte, 128 for a region in the upper half of the
\* 32-bit address space.  The records of one image lie in one region.
EntryTops == {0, 128}
EntryRecsAt(top) == [size : EntrySizes, abs : EntryAbs, top : {top}]

\* The four bytes of the absolute offset v + top * 2^24.
AbsBytes(v, top) == [U32LE(v) EXCEPT ![4] = @ + top]

\* The table of n records, as bytes: version, entry_count, then (size, abs) pairs.
RECURSIVE RecordBytes(_, _)
RecordBytes(entries, k) ==
    IF k > Len(entries) THEN <<>>
    ELSE U32LE(entries[k].size) \o AbsBytes(entries[k].abs, entries[k].top)
            \o RecordBytes(entries, k + 1)

TableBytes(entries) == U32LE(1) \o U32LE(Len(entries)) \o RecordBytes(entries, 1)

\* The first len bytes of the image: the table, then asset bytes.
ImageBytes(entries, len) ==
    LET t == TableBytes(entries)
    IN  [p \in 1..len |-> IF p <= Len(t) THEN t[p] ELSE AssetByte(p - 1)]

ImageLens == 0..(TableEnd(MaxEntries) + MaxData)

\* The images of the lower half at every length, those of the upper half at
\* the full length.
HighLens == {TableEnd(MaxEntries) + MaxData}

Images ==
    UNION {[entries : [1..n -> EntryRecsAt(top)],
            len : IF top = 0 THEN ImageLens ELSE HighLens] :
              <<n, top>> \in (0..MaxEntries) \X EntryTops}

\* ------------------------------------------------------ generated containers

\* s with zero bytes added up to a whole number of blocks.
PadToBlock(s) ==
    s \o [k \in 1..((BlockSize - (Len(s) % BlockSize)) % BlockSize) |-> 0]

\* The first HeadLen bytes of a header: the 32-byte nonce, then zero bytes but
\* for compression_type, body_size, decompressed_size and the destination
\* address, which is the start of the region in the upper half of the address
\* space.
FileHeadBytes(ctype, bodySize, decompressedSize) ==
    AsSeq([p \in 1..HeadLen |->
        LET o == p - 1
        IN  IF o < 32 THEN 170
            ELSE IF o = OffCompressionType THEN ctype
            ELSE IF o \in OffBodySize..(OffBodySize + 3)
                 THEN U32LE(bodySize)[o - OffBodySize + 1]
            ELSE IF o \in OffDecompressedSize..(OffDecompressedSize + 3)
                 THEN U32LE(decompressedSize)[o - OffDecompressedSize + 1]
            ELSE IF o \in OffDestAddress..(OffDestAddress + 3)
                 THEN AbsBytes(RegionBase, 128)[o - OffDestAddress + 1]
            ELSE 0])

\* What is encrypted into the container of an image: its stream, padded with
\* zero bytes to whole blocks.
ContainerPlain(img) == PadToBlock(LzmaStream(ImageBytes(img.entries, img.len)))

\* The body of the container of an image: its padded stream, encrypted.
ContainerBody(img) == CbcEncrypt(KEY, IV, ContainerPlain(img))

\* n records of two bytes each, laid out one after the other behind the table.
PackedEntries(n) ==
    [k \in 1..n |-> [size |-> 2, abs |-> RegionBase + 40 + 2 * (k - 1), top |-> 0]]

\* The images put into containers: a well-formed one, one whose second record
\* is out of bounds, and one of a single record in the upper half of the
\* address space.
PipeImageSeq ==
    <<[entries |-> PackedEntries(MaxEntries), len |-> TableEnd(MaxEntries) + MaxData],
      [entries |-> [PackedEntries(MaxEntries) EXCEPT ![2].abs = RegionBase + 90],
       len |-> TableEnd(MaxEntries) + MaxData],
      [entries |-> <<[size |-> 2, abs |-> RegionBase + 40, top |-> 128]>>,
       len |-> TableEnd(1) + MaxData]>>

PipeImages == {PipeImageSeq[k] : k \in 1..Len(PipeImageSeq)}

\* The bodies of the containers of PipeImageSeq, computed once.
PipeBodies == AsSeq([k \in 1..Len(PipeImageSeq) |-> ContainerBody(PipeImageSeq[k])])

\* The body of the container of an image.
BodyOf(img) ==
    IF img \in PipeImages
    THEN PipeBodies[CHOOSE k \in 1..Len(PipeImageSeq) : PipeImageSeq[k] = img]
    ELSE ContainerBody(img)


\* The names of the voice packs of a directory, in sorted order, and one file
\* that is named otherwise.
FileNames ==
    <<VpPrefix \o <<"e", "n", "g", "l", "i", "s", "h">> \o UpgInfix \o <<"0", "3">> \o BinSuffix,
      VpPrefix \o <<"e", "n", "g", "l", "i", "s", "h">> \o UpgInfix \o <<"1", "0", "4">> \o BinSuffix,
      VpPrefix \o <<"g", "e", "r", "m", "a", "n">> \o UpgInfix \o <<"3">> \o BinSuffix,
      <<"n", "o", "t", "e", "s">> \o BinSuffix>>

\* The default input directory, line 194.
VoicePacksDir == <<"v", "o", "i", "c", "e", "-", "p", "a", "c", "k", "s">>

\* The input directories of a batch: the default one, and one that is given
\* with a leading "./", a doubled slash and a slash at its end.
InputDirs == {VoicePacksDir, <<".", "/", "f", "w", "/", "/", "v", "p", "/">>}

\* The parts of a path between its slashes, the empty ones among them.
RECURSIVE SplitPath(_, _, _)
SplitPath(path, k, part) ==
    IF k > Len(path) THEN <<part>>
    ELSE IF path[k] = "/" THEN <<part>> \o SplitPath(path, k + 1, <<>>)
    ELSE SplitPath(path, k + 1, Append(part, path[k]))

\* The parts joined by slashes.
RECURSIVE JoinParts(_, _)
JoinParts(parts, k) ==
    IF k > Len(parts) THEN <<>>
    ELSE IF k = Len(parts) THEN parts[k]
    ELSE parts[k] \o <<"/">> \o JoinParts(parts, k + 1)

DotDot == <<".", ".">>

\* The parts of a normalised path: an empty part and "." are dropped, ".."
\* takes back the part before it, and is kept where there is none to take
\* back only in a relative path.
RECURSIVE NormalizeParts(_, _, _, _)
NormalizeParts(parts, k, allowAboveRoot, res) ==
    IF k > Len(parts) THEN res
    ELSE IF parts[k] = <<>> \/ parts[k] = <<".">>
         THEN NormalizeParts(parts, k + 1, allowAboveRoot, res)
    ELSE IF parts[k] = DotDot
         THEN IF res # <<>> /\ res[Len(res)] # DotDot
              THEN NormalizeParts(parts, k + 1, allowAboveRoot, SubSeq(res, 1, Len(res) - 1))
              ELSE IF allowAboveRoot
                   THEN NormalizeParts(parts, k + 1, allowAboveRoot, Append(res, DotDot))
                   ELSE NormalizeParts(parts, k + 1, allowAboveRoot, res)
    ELSE NormalizeParts(parts, k + 1, allowAboveRoot, Append(res, parts[k]))

\* path.normalize: the path of the normalised parts, with the slash it started
\* with and the slash it ended with; "." for a path with no part left.
Normalize(path) ==
    IF path = <<>> THEN <<".">>
    ELSE LET isAbsolute == path[1] = "/"
             trailing == path[Len(path)] = "/"
             parts == NormalizeParts(SplitPath(path, 1, <<>>), 1, ~isAbsolute, <<>>)
             inner == JoinParts(parts, 1)
         IN  IF inner = <<>>
             THEN IF isAbsolute THEN <<"/">>
                  ELSE IF trailing THEN <<".", "/">> ELSE <<".">>
             ELSE (IF isAbsolute THEN <<"/">> ELSE <<>>) \o inner
                      \o (IF trailing THEN <<"/">> ELSE <<>>)

\* join(inputDir, f), line 162: the arguments that are not empty, joined by a
\* slash and normalised.
PathIn(dir, name) ==
    Normalize(JoinParts(SelectSeq(<<dir, name>>, LAMBDA part : part # <<>>), 1))

SamplePath == PathIn(VoicePacksDir, FileNames[1])

\* No file was read.
NoFile == [path |-> <<>>, len |-> 0, head |-> <<>>, body |-> <<>>]

\* No Buffer is held by a caller and none was allocated.
NoHeap == [files |-> <<>>, blocks |-> <<>>]

\* The first len bytes of the container of an image followed by one more byte,
\* read from SamplePath.
ContainerFile(ctype, img, len) ==
    Strict(BodyOf(img), LAMBDA b :
        [path |-> SamplePath,
         len |-> len,
         head |-> SubSeq(FileHeadBytes(ctype, Len(b), img.len), 1, Min(len, HeadLen)),
         body |-> SubSeq(b \o <<238>>, 1, Max(len - HeaderSize, 0))])

\* The length of the whole container of an image.
ContainerLen(img) == HeaderSize + Len(BodyOf(img))

FileLens(img) ==
    {0, OffCompressionType, OffCompressionType + 1, OffBodySize + 3, OffBodySize + 4,
     HeadLen - 1, HeadLen, HeaderSize - 1, HeaderSize,
     HeaderSize + BlockSize - 1, HeaderSize + BlockSize,
     ContainerLen(img) - 1, ContainerLen(img), ContainerLen(img) + 1}

CompressionTypes == {0, 1, CompressionLzmaAes}

\* The length of the nonce that leads the header, and the nonces of the files:
\* one byte repeated, and the bytes of the IV twice over.
NonceLen == 32
Nonces == <<[p \in 1..NonceLen |-> 170], IV \o IV>>

\* The file with the bytes of its nonce, as far as it has them, set to those
\* of nonce.
WithNonce(file, nonce) ==
    Strict(file, LAMBDA f :
        [f EXCEPT !.head = AsSeq([p \in 1..Len(f.head) |->
                                    IF p <= NonceLen THEN nonce[p] ELSE f.head[p]])])

\* --------------------------------------------------------------- the table run

\* process.exit(code): the process ended with the code.
ExitWith(code) == [status |-> "exited", code |-> code]

\* No key search is running.
NoKeySearch ==
    /\ fw = <<>>
    /\ candidates = <<>>
    /\ hypothesis = None
    /\ accepted = FALSE
    /\ search = None
    /\ tested = <<>>
    /\ found = None

\* No command line was dispatched.
NoCli ==
    /\ args = <<>>
    /\ command = None

\* No properties byte was decomposed.
NoProps ==
    /\ props = 0
    /\ params = None

\* No batch and no other call is running, and the process is alive.
NoHost ==
    /\ queue = <<>>
    /\ attempted = <<>>
    /\ exitCode = None
    /\ calls = <<>>
    /\ heap = NoHeap
    /\ jobs = {}
    /\ NoCli
    /\ NoProps

\* No extraction is running.
NoExtraction ==
    /\ image = None
    /\ data = NoFile
    /\ info = None
    /\ decrypted = None
    /\ decompressed = <<>>
    /\ result = None
    /\ files = {}

\* The table run starts after the await of line 54.  Of the file it keeps the
\* path and the header, which name the directory the prompts are written to.
TableFile ==
    [path |-> SamplePath, len |-> HeadLen,
     head |-> FileHeadBytes(CompressionLzmaAes, 0, 0), body |-> <<>>]

InitTable ==
    /\ pc = "decompressed"
    /\ image \in Images
    /\ decompressed = ImageBytes(image.entries, image.len)
    /\ result = None
    /\ files = {}
    /\ data = TableFile
    /\ info = ParseHeader(TableFile)
    /\ decrypted = None
    /\ NoKeySearch
    /\ NoHost

\* extractPrompts after the await of line 54: lines 56-68.
ParseStep ==
    /\ pc = "decompressed"
    /\ result' = ParseTable(decompressed)
    /\ pc' = IF result'.status = "ok" THEN "parsed" ELSE "failed"
    /\ UNCHANGED <<image, data, info, decrypted, decompressed, files>>
    /\ UNCHANGED keyVars
    /\ UNCHANGED hostVars
    /\ UNCHANGED <<cliVars, propVars>>

\* What extractFile writes, lines 108 and 112-116: one file per returned prompt
\* in the directory of the language, named by its index (prompt_<index, two
\* digits>.mp3: the name is the index).
Written(language, prompts) ==
    {[dir |-> language, name |-> prompts[j].index, data |-> prompts[j].data] :
        j \in 1..Len(prompts)}

\* writeFileSync on a directory: a file of the same place is replaced, every
\* other file stays.
WriteFiles(disk, new) ==
    {f \in disk : ~\E g \in new : g.dir = f.dir /\ g.name = f.name} \cup new

\* extractFile, lines 112-117.
WriteStep ==
    /\ pc = "parsed"
    /\ files' = WriteFiles(files, Written(info.language, result.prompts))
    /\ pc' = "done"
    /\ UNCHANGED <<image, data, info, decrypted, decompressed, result>>
    /\ UNCHANGED keyVars
    /\ UNCHANGED hostVars
    /\ UNCHANGED <<cliVars, propVars>>

NextTable == ParseStep \/ WriteStep

SpecTable == InitTable /\ [][NextTable]_vars

\* ------------------------------------------------------------ the extraction

Init ==
    /\ pc = "start"
    /\ image \in PipeImages
    /\ \E ctype \in CompressionTypes : \E len \in FileLens(image) :
          \E n \in 1..Len(Nonces) :
             data = WithNonce(ContainerFile(ctype, image, len), Nonces[n])
    /\ info = None
    /\ decrypted = None
    /\ decompressed = <<>>
    /\ result = None
    /\ files = {}
    /\ NoKeySearch
    /\ NoHost

\* extractFile, lines 106-107: the file is read and its header parsed.
HeaderStep ==
    /\ pc = "start"
    /\ info' = ParseHeader(data)
    /\ pc' = IF info'.status = "ok" THEN "header" ELSE "failed"
    /\ UNCHANGED <<image, data, decrypted, decompressed, result, files>>
    /\ UNCHANGED keyVars
    /\ UNCHANGED hostVars
    /\ UNCHANGED <<cliVars, propVars>>

\* extractPrompts, line 53: the bytes from 0x1000 on are decrypted.
DecryptStep ==
    /\ pc = "header"
    /\ decrypted' = DecryptBody(data)
    /\ pc' = IF decrypted'.status = "ok" THEN "decrypted" ELSE "failed"
    /\ UNCHANGED <<image, data, info, decompressed, result, files>>
    /\ UNCHANGED keyVars
    /\ UNCHANGED hostVars
    /\ UNCHANGED <<cliVars, propVars>>

\* extractPrompts, line 54: the decompression callback resolves or rejects.
DecompressStep ==
    /\ pc = "decrypted"
    /\ LET r == DecompressLzma(decrypted.data)
       IN  IF r.status = "ok"
           THEN decompressed' = r.data /\ pc' = "decompressed"
           ELSE decompressed' = decompressed /\ pc' = "failed"
    /\ UNCHANGED <<image, data, info, decrypted, result, files>>
    /\ UNCHANGED keyVars
    /\ UNCHANGED hostVars
    /\ UNCHANGED <<cliVars, propVars>>

Next == HeaderStep \/ DecryptStep \/ DecompressStep \/ ParseStep \/ WriteStep

Spec == Init /\ [][Next]_vars

\* ------------------------------------------------- containers made of assets

\* The byte sequences an asset is made of: none, one zero byte, the start of
\* an MPEG frame, and nine bytes that differ.
AssetPool == {<<>>, <<0>>, <<255, 251, 144, 0>>, [k \in 1..9 |-> (k * 37) % 256]}

\* The lists of assets an image is made of.
AssetLists == UNION {[1..n -> AssetPool] : n \in 1..MaxEntries}

\* The records of the assets from the k-th on, which lie one after the other,
\* the k-th at abs.
RECURSIVE AssetRecords(_, _, _, _)
AssetRecords(assets, k, abs, top) ==
    IF k > Len(assets) THEN <<>>
    ELSE <<[size |-> Len(assets[k]), abs |-> abs, top |-> top]>>
            \o AssetRecords(assets, k + 1, abs + Len(assets[k]), top)

\* The bytes of the assets from the k-th on.
RECURSIVE AssetBytes(_, _)
AssetBytes(assets, k) ==
    IF k > Len(assets) THEN <<>> ELSE assets[k] \o AssetBytes(assets, k + 1)

\* The image of a list of assets: the table, then the assets, the first of them
\* 40 bytes into the region.
AssetImage(assets, top) ==
    TableBytes(AssetRecords(assets, 1, RegionBase + 40, top)) \o AssetBytes(assets, 1)

\* Made by xz --format=lzma and openssl enc -aes-128-cbc -nopad: two equal assets that start like a WAV file (dictionary of 64 KiB, lc 3, lp 0, pb 2).
XzRiff ==
    [assets |-> <<<<82, 73, 70, 70, 36, 0, 0, 0, 87, 65, 86, 69, 102, 109, 116, 32, 16, 0,
                    0, 0, 1, 0, 1, 0, 64, 31, 0, 0, 128, 62, 0, 0, 2, 0, 16, 0, 100, 97,
                    116, 97, 0, 0, 0, 0>>,
                  <<82, 73, 70, 70, 36, 0, 0, 0, 87, 65, 86, 69, 102, 109, 116, 32, 16, 0,
                    0, 0, 1, 0, 1, 0, 64, 31, 0, 0, 128, 62, 0, 0, 2, 0, 16, 0, 100, 97,
                    116, 97, 0, 0, 0, 0>>>>,
     top |-> 0,
     body |-> <<13, 169, 5, 238, 93, 22, 19, 70, 144, 159, 50, 73, 176, 70, 87, 189, 46,
               135, 217, 64, 97, 232, 146, 62, 2, 225, 77, 30, 188, 166, 140, 112, 209, 25,
               244, 150, 1, 26, 90, 23, 2, 179, 224, 179, 7, 207, 194, 73, 151, 138, 220,
               242, 126, 206, 93, 163, 183, 172, 10, 132, 48, 241, 165, 66, 11, 121, 241,
               148, 197, 141, 96, 239, 2, 53, 243, 233, 156, 135, 99, 168>>]

\* Made by xz --format=lzma and openssl enc -aes-128-cbc -nopad: a run of zero bytes, a run of the pair 255, 127 and one byte (dictionary of 4 KiB, lc 0, lp 2, pb 2).
XzRuns ==
    [assets |-> <<<<0, 0, 0, 0, 0, 0, 0, 0, 0, 0, 0, 0, 0, 0, 0, 0, 0, 0, 0, 0, 0, 0, 0, 0,
                    0, 0, 0, 0, 0, 0, 0, 0, 0, 0, 0, 0, 0, 0, 0, 0>>,
                  <<255, 127, 255, 127, 255, 127, 255, 127, 255, 127, 255, 127, 255, 127,
                    255, 127, 255, 127, 255, 127, 255, 127, 255, 127>>,
                  <<128>>>>,
     top |-> 0,
     body |-> <<58, 210, 130, 228, 26, 95, 47, 139, 136, 45, 142, 68, 223, 91, 179, 254,
               102, 49, 158, 173, 118, 239, 2, 52, 45, 218, 62, 206, 5, 59, 74, 110, 255,
               120, 199, 116, 62, 130, 52, 16, 85, 169, 28, 81, 142, 13, 181, 13, 228, 200,
               66, 9, 80, 134, 227, 85, 209, 137, 51, 121, 244, 235, 4, 218>>]

\* Made by xz --format=lzma and openssl enc -aes-128-cbc -nopad: one asset of mixed bytes in the upper half of the address space (dictionary of 1 MiB, lc 3, lp 0, pb 2).
XzNoise ==
    [assets |-> <<<<165, 77, 202, 24, 37, 48, 187, 29, 109, 19, 44, 222, 214, 35, 123, 46,
                    217, 30, 63, 114, 31, 203, 25, 113, 23, 68, 148, 214, 73, 60, 157, 92,
                    52, 96, 190, 49, 32, 30, 105, 254, 218, 160, 238, 232, 185, 153, 127,
                    92>>>>,
     top |-> 128,
     body |-> <<82, 216, 144, 190, 113, 14, 65, 83, 168, 30, 72, 188, 4, 86, 3, 148, 126,
               102, 116, 82, 67, 164, 67, 41, 168, 115, 151, 25, 74, 185, 245, 62, 152,
               221, 12, 252, 52, 89, 250, 27, 50, 143, 105, 216, 234, 77, 12, 19, 1, 207,
               32, 82, 118, 16, 242, 246, 149, 40, 199, 228, 250, 207, 32, 116, 194, 13,
               156, 20, 104, 249, 255, 18, 231, 99, 172, 19, 89, 175, 56, 48, 225, 3, 28,
               135, 127, 225, 204, 129, 82, 75, 3, 37, 85, 35, 89, 169>>]

XzSamples == <<XzRiff, XzRuns, XzNoise>>

\* The images put into whole containers: every list of assets in the lower
\* half of the address space and every single asset in the upper half,
\* compressed by the encoder of this module and encrypted by CbcEncrypt, and
\* the assets of the containers that xz and openssl made.
RoundImages ==
    {[assets |-> a, top |-> 0, by |-> "LzmaStream"] : a \in AssetLists}
    \cup {[assets |-> <<a>>, top |-> 128, by |-> "LzmaStream"] : a \in AssetPool}
    \cup {[assets |-> XzSamples[k].assets, top |-> XzSamples[k].top, by |-> "xz"] :
             k \in 1..Len(XzSamples)}

\* The body of the container of an image of RoundImages.
RoundBody(img) ==
    IF img.by = "xz"
    THEN XzSamples[CHOOSE k \in 1..Len(XzSamples) : XzSamples[k].assets = img.assets].body
    ELSE CbcEncrypt(KEY, IV, PadToBlock(LzmaStream(AssetImage(img.assets, img.top))))

\* The whole container of an image of RoundImages, of compression type 2, read
\* from SamplePath.
RoundFile(img) ==
    Strict(RoundBody(img), LAMBDA b :
        [path |-> SamplePath,
         len |-> HeaderSize + Len(b),
         head |-> FileHeadBytes(CompressionLzmaAes, Len(b),
                                Len(AssetImage(img.assets, img.top))),
         body |-> b])

InitRound ==
    /\ pc = "start"
    /\ image \in RoundImages
    /\ data = RoundFile(image)
    /\ info = None
    /\ decrypted = None
    /\ decompressed = <<>>
    /\ result = None
    /\ files = {}
    /\ NoKeySearch
    /\ NoHost

NextRound == HeaderStep \/ DecryptStep \/ DecompressStep \/ ParseStep \/ WriteStep

SpecRound == InitRound /\ [][NextRound]_vars

\* ------------------------------------------------------- findAscii16Strings

\* The number of segments a firmware dump is made of.
MaxSegs == 3

\* The length of a key or IV string, in bytes.
RunLen == 16

\* Line 86: a byte ends the run if b <= 32 or b >= 127.
IsPrintable(b) == ~(b <= 32 \/ b >= 127)

\* Lines 83-87: the 16 bytes from i on are all printable.
AllPrintable(buf, i) == \A j \in 0..(RunLen - 1) : IsPrintable(buf[i + j + 1])

\* A scan that asks for a byte after the run, whatever it is.
TerminatedByAnyByte(buf, i) == i + RunLen < Len(buf)

\* Line 88: the byte after the run exists and is NUL.
Terminated(buf, i) == i + RunLen < Len(buf) /\ buf[i + RunLen + 1] = 0

\* A scan that stops one position early.
ScanLimitShort(len) == len - RunLen - 1

\* Line 82: the scan runs while i < fw.length - 16.
ScanLimit(len) == len - RunLen

\* Lines 82-91: the positions 0, 1, ... below the limit are visited in order
\* and each one that passes both tests is pushed.
ScanLoop(buf) ==
    LET positions == [k \in 1..Max(ScanLimit(Len(buf)), 0) |-> k - 1]
        Hit(i) == AllPrintable(buf, i) /\ Terminated(buf, i)
        hits == SelectSeq(positions, Hit)
    IN  AsSeq([k \in 1..Len(hits) |->
            [offset |-> hits[k], value |-> Subarray(buf, hits[k], hits[k] + RunLen)]])

\* findAscii16Strings, lines 80-94.
FindAscii16Strings(buf) == ScanLoop(buf)

\* Firmware dumps: up to MaxSegs segments, each one byte value repeated or a
\* NUL-terminated string of RunLen printable bytes.
SegBytes == {0, 32, 33, 126, 127}
SegLens == {1, RunLen - 1, RunLen}
StringSegment == [k \in 1..(RunLen + 1) |-> IF k <= RunLen THEN 97 ELSE 0]
Segments == {[k \in 1..n |-> b] : b \in SegBytes, n \in SegLens} \cup {StringSegment}

RECURSIVE Firmwares(_)
Firmwares(n) ==
    IF n = 0 THEN {<<>>}
    ELSE LET shorter == Firmwares(n - 1)
         IN  shorter \cup {f \o seg : f \in shorter, seg \in Segments}

InitScan ==
    /\ pc = "scan"
    /\ fw \in Firmwares(MaxSegs)
    /\ candidates = <<>>
    /\ hypothesis = None
    /\ accepted = FALSE
    /\ search = None
    /\ tested = <<>>
    /\ found = None
    /\ NoExtraction
    /\ NoHost

\* extractKey, line 120.
ScanStep ==
    /\ pc = "scan"
    /\ candidates' = FindAscii16Strings(fw)
    /\ pc' = "scanned"
    /\ UNCHANGED <<fw, hypothesis, accepted, search, tested, found>>
    /\ UNCHANGED extractVars
    /\ UNCHANGED hostVars
    /\ UNCHANGED <<cliVars, propVars>>

NextScan == ScanStep

SpecScan == InitScan /\ [][NextScan]_vars

\* ------------------------------------------------------------- tryKeyIvPair

\* An oracle that looks at the properties byte only.
TryKeyIvPairPropsOnly(key, iv, ciphertext) ==
    IF ~ValidCipherArgs(key, iv) THEN FALSE
    ELSE Strict(DecipherUpdate(key, iv, Subarray(ciphertext, 0, BlockSize)), LAMBDA dec :
             ~(Len(dec) = 0 \/ dec[1] # LzmaProps))

\* An oracle that deciphers under the built-in key whatever key it is given.
TryKeyIvPairBuiltInKey(key, iv, ciphertext) ==
    IF ~ValidCipherArgs(key, iv) THEN FALSE
    ELSE Strict(DecipherUpdate(KEY, iv, Subarray(ciphertext, 0, BlockSize)), LAMBDA dec :
             IF Len(dec) = 0 \/ dec[1] # LzmaProps THEN FALSE
             ELSE ReadUInt32LE(dec, 1) = Wide(LzmaDictSize))

\* An oracle that cuts a key or IV that is too long down to 16 bytes.
TryKeyIvPairTruncating(key, iv, ciphertext) ==
    IF Len(key) < BlockSize \/ Len(iv) < BlockSize THEN FALSE
    ELSE Strict(DecipherUpdate(SubSeq(key, 1, BlockSize), SubSeq(iv, 1, BlockSize),
                               Subarray(ciphertext, 0, BlockSize)), LAMBDA dec :
             IF Len(dec) = 0 \/ dec[1] # LzmaProps THEN FALSE
             ELSE ReadUInt32LE(dec, 1) = Wide(LzmaDictSize))

\* An oracle that also asks for a stream size below 4 GiB (header bytes 9..12).
TryKeyIvPairWithSize(key, iv, ciphertext) ==
    IF ~ValidCipherArgs(key, iv) THEN FALSE
    ELSE Strict(DecipherUpdate(key, iv, Subarray(ciphertext, 0, BlockSize)), LAMBDA dec :
             IF Len(dec) = 0 \/ dec[1] # LzmaProps THEN FALSE
             ELSE ReadUInt32LE(dec, 1) = Wide(LzmaDictSize) /\ ReadUInt32LE(dec, 9) = Wide(0))

\* tryKeyIvPair, lines 96-105.  A throw of createDecipheriv is caught and gives
\* false; update gives no bytes for less than a block, and dec[0] is then
\* undefined, which is not 0x5d.
TryKeyIvPair(key, iv, ciphertext) ==
    IF ~ValidCipherArgs(key, iv) THEN FALSE
    ELSE Strict(DecipherUpdate(key, iv, Subarray(ciphertext, 0, BlockSize)), LAMBDA dec :
             IF Len(dec) = 0 \/ dec[1] # LzmaProps THEN FALSE
             ELSE ReadUInt32LE(dec, 1) = Wide(LzmaDictSize))

\* s with the byte at position p xored with mask m.
MutateAt(s, p, m) == [s EXCEPT ![p] = Xor8(s[p], m)]

KeyMasks == {1, 128, 255}
IvMasks == {1, 128}

\* The keys tried: the key, the key with one byte changed, and strings that
\* are no key at all.
OneByteKeys == {MutateAt(KEY, p, m) : p \in 1..BlockSize, m \in KeyMasks}
HypothesisKeys == {KEY} \cup OneByteKeys \cup {SubSeq(KEY, 1, BlockSize - 1), KEY \o <<0>>, IV}

HypothesisIvs ==
    {IV} \cup {MutateAt(IV, p, m) : p \in 1..BlockSize, m \in IvMasks}
         \cup {SubSeq(IV, 1, BlockSize - 1), IV \o <<0>>, KEY}

\* The ciphertexts tried: the body of a container, its first block, less than
\* a block of it, nothing, the body from its second block on, and the body with
\* its first byte changed.
SampleBody == ContainerBody([entries |-> PackedEntries(1), len |-> TableEnd(1) + 2])

HypothesisCiphertexts ==
    {SampleBody,
     SubSeq(SampleBody, 1, BlockSize),
     SubSeq(SampleBody, 1, BlockSize - 1),
     <<>>,
     SubSeq(SampleBody, BlockSize + 1, Len(SampleBody)),
     MutateAt(SampleBody, 1, 1)}

Hypotheses ==
    {[key |-> k, iv |-> IV, ciphertext |-> c] :
        k \in HypothesisKeys, c \in HypothesisCiphertexts}
    \cup {[key |-> KEY, iv |-> v, ciphertext |-> c] :
        v \in HypothesisIvs, c \in HypothesisCiphertexts}
    \cup {[key |-> IV, iv |-> KEY, ciphertext |-> c] : c \in HypothesisCiphertexts}

InitOracle ==
    /\ pc = "try"
    /\ hypothesis \in Hypotheses
    /\ accepted = FALSE
    /\ fw = <<>>
    /\ candidates = <<>>
    /\ search = None
    /\ tested = <<>>
    /\ found = None
    /\ NoExtraction
    /\ NoHost

\* One call of tryKeyIvPair (extractKey, lines 146 and 150).
TryStep ==
    /\ pc = "try"
    /\ accepted' = TryKeyIvPair(hypothesis.key, hypothesis.iv, hypothesis.ciphertext)
    /\ pc' = "tried"
    /\ UNCHANGED <<fw, candidates, hypothesis, search, tested, found>>
    /\ UNCHANGED extractVars
    /\ UNCHANGED hostVars
    /\ UNCHANGED <<cliVars, propVars>>

NextOracle == TryStep

SpecOracle == InitOracle /\ [][NextOracle]_vars

\* ----------------------------------------------------------------- extractKey

\* The most candidate strings a firmware dump holds.
MaxCands == 7

\* The most of them that are the key or the IV.
MaxSecrets == 3

\* Line 145: a candidate at ci is paired with those at j < min(ci + 6, length).
PairSpan == 6

\* A printable string that is neither the key nor the IV.
Decoy == [k \in 1..RunLen |-> 65]

CandidatePool == <<KEY, IV, Decoy>>

\* A firmware dump that holds the given strings, each ended by a NUL byte.
RECURSIVE FirmwareOf(_)
FirmwareOf(values) ==
    IF values = <<>> THEN <<>>
    ELSE Head(values) \o <<0>> \o FirmwareOf(Tail(values))

CandidateLists ==
    UNION {{s \in [1..n -> 1..Len(CandidatePool)] :
               Cardinality({k \in 1..n : CandidatePool[s[k]] # Decoy}) <= MaxSecrets} :
           n \in 0..MaxCands}

SearchFirmwares ==
    {FirmwareOf([k \in 1..Len(s) |-> CandidatePool[s[k]]]) : s \in CandidateLists}

\* Lines 129-140: the first 4096 body bytes of a voice pack.
ValidationBody == Subarray(SampleBody, 0, 4096)

\* tryKeyIvPair on the strings of the pool and the validation body, each
\* verdict computed once.
PoolVerdicts ==
    AsSeq([a \in 1..Len(CandidatePool) |->
        AsSeq([b \in 1..Len(CandidatePool) |->
            TryKeyIvPair(CandidatePool[a], CandidatePool[b], ValidationBody)])])

InPool(v) == \E a \in 1..Len(CandidatePool) : CandidatePool[a] = v
PoolIndex(v) == CHOOSE a \in 1..Len(CandidatePool) : CandidatePool[a] = v

\* tryKeyIvPair(key, iv, body) as extractKey calls it.
TryOnBody(key, iv) ==
    IF InPool(key) /\ InPool(iv) THEN PoolVerdicts[PoolIndex(key)][PoolIndex(iv)]
    ELSE TryKeyIvPair(key, iv, ValidationBody)

\* An inner loop that starts at j = ci.
FirstPairFromSelf(n, ci) ==
    IF ~(ci < n) THEN None
    ELSE [status |-> "pair", ci |-> ci, j |-> ci, swapped |-> FALSE]

\* Lines 143-145: the first pair (ci, j) of the loops from ci on, None if the
\* loops end.
RECURSIVE FirstPairFrom(_, _)
FirstPairFrom(n, ci) ==
    IF ~(ci < n) THEN None
    ELSE IF ci + 1 < Min(ci + PairSpan, n)
         THEN [status |-> "pair", ci |-> ci, j |-> ci + 1, swapped |-> FALSE]
         ELSE FirstPairFrom(n, ci + 1)

\* A search that pairs a candidate with every later one.
NextPairUnbounded(n, pos) ==
    IF pos.j + 1 < n
    THEN [status |-> "pair", ci |-> pos.ci, j |-> pos.j + 1, swapped |-> FALSE]
    ELSE FirstPairFrom(n, pos.ci + 1)

\* Line 145, j++: the pair after (ci, j).
NextPair(n, pos) ==
    IF pos.j + 1 < Min(pos.ci + PairSpan, n)
    THEN [status |-> "pair", ci |-> pos.ci, j |-> pos.j + 1, swapped |-> FALSE]
    ELSE FirstPairFrom(n, pos.ci + 1)

\* A search that goes on to the next pair after one role assignment.
AfterFailureOneRole(n, pos) == NextPair(n, pos)

\* Lines 147-154: after a failed test of (key = b, iv = a) comes the test of
\* (key = a, iv = b), after that one the next pair.
AfterFailure(n, pos) ==
    IF ~pos.swapped THEN [pos EXCEPT !.swapped = TRUE] ELSE NextPair(n, pos)

\* A search that tries key = a before key = b.
HypothesisAtEarlierFirst(cands, pos) ==
    LET a == cands[pos.ci + 1]
        b == cands[pos.j + 1]
    IN  IF pos.swapped THEN [key |-> b.value, iv |-> a.value, keyOff |-> b.offset, ivOff |-> a.offset]
        ELSE [key |-> a.value, iv |-> b.value, keyOff |-> a.offset, ivOff |-> b.offset]

\* Lines 144-150: the arguments of the call of tryKeyIvPair at a position.
HypothesisAt(cands, pos) ==
    LET a == cands[pos.ci + 1]
        b == cands[pos.j + 1]
    IN  IF pos.swapped THEN [key |-> a.value, iv |-> b.value, keyOff |-> a.offset, ivOff |-> b.offset]
        ELSE [key |-> b.value, iv |-> a.value, keyOff |-> b.offset, ivOff |-> a.offset]

\* A search that reports the built-in key and IV when it finds none.
KeyNotFoundDefaulted ==
    [found |-> [key |-> KEY, iv |-> IV, keyOff |-> 0, ivOff |-> 0], exitCode |-> 0]

\* Lines 160-161: nothing is reported and the process exits with code 1.
KeyNotFound == [found |-> None, exitCode |-> 1]

InitSearch ==
    /\ pc = "scan"
    /\ fw \in SearchFirmwares
    /\ candidates = <<>>
    /\ hypothesis = None
    /\ accepted = FALSE
    /\ search = None
    /\ tested = <<>>
    /\ found = None
    /\ NoExtraction
    /\ NoHost

\* extractKey, lines 123-126: less than two candidates end the process.
CountStep ==
    /\ pc = "scanned"
    /\ IF Len(candidates) < 2
       THEN pc' = "exited" /\ exitCode' = ExitWith(1)
       ELSE pc' = "body" /\ exitCode' = exitCode
    /\ UNCHANGED <<fw, candidates, hypothesis, accepted, search, tested, found>>
    /\ UNCHANGED extractVars
    /\ UNCHANGED <<queue, attempted, calls, heap, jobs>>
    /\ UNCHANGED <<cliVars, propVars>>

\* extractKey, lines 129-141: the body is read from the local voice pack or a
\* downloaded one; a failed download ends the process.
BodyStep ==
    /\ pc = "body"
    /\ \E ok \in BOOLEAN :
          IF ok
          THEN /\ pc' = "search"
               /\ search' = FirstPairFrom(Len(candidates), 0)
               /\ exitCode' = exitCode
          ELSE /\ pc' = "exited"
               /\ search' = search
               /\ exitCode' = ExitWith(1)
    /\ UNCHANGED <<fw, candidates, hypothesis, accepted, tested, found>>
    /\ UNCHANGED extractVars
    /\ UNCHANGED <<queue, attempted, calls, heap, jobs>>
    /\ UNCHANGED <<cliVars, propVars>>

\* extractKey, lines 143-161: one call of tryKeyIvPair and what follows it: the
\* report and return on success, the next position of the loops on failure, the
\* exit when the loops end.
TestStep ==
    /\ pc = "search"
    /\ LET h == HypothesisAt(candidates, search)
           passed == TryOnBody(h.key, h.iv)
           next == AfterFailure(Len(candidates), search)
       IN  /\ tested' = Append(tested, [ci |-> search.ci, j |-> search.j,
                                        key |-> h.key, iv |-> h.iv, passed |-> passed])
           /\ IF passed
              THEN /\ found' = h
                   /\ pc' = "found"
                   /\ search' = search
                   /\ exitCode' = exitCode
              ELSE IF next # None
              THEN /\ found' = found
                   /\ pc' = "search"
                   /\ search' = next
                   /\ exitCode' = exitCode
              ELSE /\ found' = KeyNotFound.found
                   /\ pc' = "exited"
                   /\ search' = search
                   /\ exitCode' = ExitWith(KeyNotFound.exitCode)
    /\ UNCHANGED <<fw, candidates, hypothesis, accepted>>
    /\ UNCHANGED extractVars
    /\ UNCHANGED <<queue, attempted, calls, heap, jobs>>
    /\ UNCHANGED <<cliVars, propVars>>

\* Line 303: extractKey returned and the command ends with process.exit(0).
ReturnStep ==
    /\ pc = "found"
    /\ pc' = "exited"
    /\ exitCode' = ExitWith(0)
    /\ UNCHANGED keyVars
    /\ UNCHANGED extractVars
    /\ UNCHANGED <<queue, attempted, calls, heap, jobs>>
    /\ UNCHANGED <<cliVars, propVars>>

NextSearch == ScanStep \/ CountStep \/ BodyStep \/ TestStep \/ ReturnStep

SpecSearch == InitSearch /\ [][NextSearch]_vars

\* ----------------------------------------------------------------- extractAll

\* The most files a batch holds.
MaxFiles == 3

\* The files a directory can hold: two whole containers, one cut inside its
\* header, one with a byte added to its body, one cut after its first block.
BatchSamples ==
    LET small == [entries |-> PackedEntries(1), len |-> TableEnd(1) + 2]
        large == [entries |-> PackedEntries(2), len |-> TableEnd(2) + 4]
    IN  <<ContainerFile(CompressionLzmaAes, small, ContainerLen(small)),
          ContainerFile(CompressionLzmaAes, large, ContainerLen(large)),
          ContainerFile(CompressionLzmaAes, small, HeadLen - 1),
          ContainerFile(CompressionLzmaAes, small, ContainerLen(small) + 1),
          ContainerFile(CompressionLzmaAes, small, HeaderSize + BlockSize)>>

\* Line 152: the .bin files of the input directory, sorted by name; name is the
\* place of a file in that order, and its path is the directory joined with
\* the k-th of FileNames.
Batches ==
    UNION {{[k \in 1..n |->
                [name |-> k,
                 file |-> [BatchSamples[pick[k]] EXCEPT
                              !.path = PathIn(dir, FileNames[k])]]] :
               <<pick, dir>> \in [1..n -> 1..Len(BatchSamples)] \X InputDirs} :
           n \in 0..MaxFiles}

InitBatch ==
    /\ pc = "list"
    /\ queue \in Batches
    /\ attempted = <<>>
    /\ exitCode = None
    /\ calls = <<>>
    /\ heap = NoHeap
    /\ jobs = {}
    /\ NoCli
    /\ NoProps
    /\ NoExtraction
    /\ NoKeySearch

\* extractAll, lines 152-156: an empty list ends the process.
ListStep ==
    /\ pc = "list"
    /\ IF Len(queue) = 0
       THEN pc' = "exited" /\ exitCode' = ExitWith(1)
       ELSE pc' = "batch" /\ exitCode' = exitCode
    /\ UNCHANGED <<queue, attempted, calls, heap, jobs>>
    /\ UNCHANGED <<cliVars, propVars>>
    /\ UNCHANGED extractVars
    /\ UNCHANGED keyVars

\* extractAll, lines 161-162, and extractFile, line 106: the loop takes the next
\* file, at its start or after the extractFile before returned, and reads it.
TakeFileStep ==
    /\ pc \in {"batch", "done"}
    /\ queue # <<>>
    /\ attempted' = Append(attempted, Head(queue).name)
    /\ queue' = Tail(queue)
    /\ data' = Head(queue).file
    /\ info' = None
    /\ decrypted' = None
    /\ decompressed' = <<>>
    /\ result' = None
    /\ pc' = "start"
    /\ UNCHANGED <<image, files, exitCode, calls, heap, jobs>>
    /\ UNCHANGED <<cliVars, propVars>>
    /\ UNCHANGED keyVars

\* extractAll, line 164, and line 199: the loop is over and the command ends
\* with process.exit(0).
FinishStep ==
    /\ pc = "done"
    /\ queue = <<>>
    /\ pc' = "exited"
    /\ exitCode' = ExitWith(0)
    /\ UNCHANGED <<queue, attempted, calls, heap, jobs>>
    /\ UNCHANGED <<cliVars, propVars>>
    /\ UNCHANGED extractVars
    /\ UNCHANGED keyVars

\* Line 162: nothing catches what extractFile throws: the rejection leaves
\* extractAll and the top-level await of line 194, and the process ends.
AbortStep ==
    /\ pc = "failed"
    /\ pc' = "exited"
    /\ exitCode' = ExitWith(1)
    /\ UNCHANGED <<queue, attempted, calls, heap, jobs>>
    /\ UNCHANGED <<cliVars, propVars>>
    /\ UNCHANGED extractVars
    /\ UNCHANGED keyVars

NextBatch ==
    \/ ListStep
    \/ TakeFileStep
    \/ HeaderStep
    \/ DecryptStep
    \/ DecompressStep
    \/ ParseStep
    \/ WriteStep
    \/ FinishStep
    \/ AbortStep

SpecBatch == InitBatch /\ [][NextBatch]_vars

\* ------------------------------------------------- extractPrompts, interleaved

\* The number of calls of extractPrompts in flight.
MaxCalls == 2
MaxArgs == 2

\* extractPrompts, lines 52-69, as one function of the file.
ExtractPrompts(file) ==
    Strict(DecryptBody(file), LAMBDA d :
        IF d.status # "ok" THEN Thrown
        ELSE Strict(DecompressLzma(d.data), LAMBDA z :
                 IF z.status # "ok" THEN Thrown ELSE ParseTable(z.data)))

\* The containers the callers hold in their Buffers.
CallSamples == Strict(BatchSamples, LAMBDA s : <<s[1], s[2], s[4], s[5]>>)

\* What line 53 and line 33 make of each of CallSamples, computed once.
SampleRuns ==
    Strict(CallSamples, LAMBDA samples :
        AsSeq([k \in 1..Len(samples) |->
            Strict(DecryptBody(samples[k]), LAMBDA plain :
                [file |-> samples[k],
                 plain |-> plain,
                 decoded |-> IF plain.status = "ok" THEN LzmaDecode(plain.data)
                             ELSE Thrown])]))

\* DecryptBody(file), looked up when the file is one of CallSamples.
DecryptBodyOf(file) ==
    Strict(SelectSeq(SampleRuns, LAMBDA run : run.file = file), LAMBDA runs :
        IF runs # <<>> THEN runs[1].plain ELSE DecryptBody(file))

\* LzmaDecode(array), looked up when the array is a plaintext of CallSamples.
LzmaDecodeOf(array) ==
    Strict(SelectSeq(SampleRuns, LAMBDA run :
               run.plain.status = "ok" /\ run.plain.data = array),
           LAMBDA runs :
               IF runs # <<>> THEN runs[1].decoded ELSE LzmaDecode(array))

\* The heap is [files, blocks]: the Buffers the callers read their containers
\* into, and the Buffers the calls allocate, in the order of their allocation.
\* A call refers to a Buffer by its place in files or in blocks.

\* Line 53 with the plaintext written over the bytes it was deciphered from.
DecryptBufferInPlace(h, k) ==
    Strict(DecryptBodyOf(h.files[k]), LAMBDA d :
        IF d.status # "ok" THEN [status |-> "error", heap |-> h, buf |-> 0]
        ELSE [status |-> "ok",
              heap |-> [h EXCEPT !.files[k].body = d.data, !.blocks = Append(@, d.data)],
              buf |-> Len(h.blocks) + 1])

\* Line 53, decrypt(data.subarray(0x1000)) on the Buffer files[k]: the view is
\* read, and Buffer.concat (line 28) returns a Buffer of its own.
DecryptBuffer(h, k) ==
    Strict(DecryptBodyOf(h.files[k]), LAMBDA d :
        IF d.status # "ok" THEN [status |-> "error", heap |-> h, buf |-> 0]
        ELSE [status |-> "ok",
              heap |-> [h EXCEPT !.blocks = Append(@, d.data)],
              buf |-> Len(h.blocks) + 1])

\* Line 33, Array.from(data): an array of its own that holds the bytes of the
\* Buffer.
ArrayFrom(h, buf) == h.blocks[buf]

\* Line 35 with the result written into the Buffer allocated last.
BufferFromResultReused(h, array) ==
    [heap |-> [h EXCEPT !.blocks[Len(h.blocks)] = BufferFrom(array)],
     buf |-> Len(h.blocks)]

\* Line 35, Buffer.from(result): a Buffer of its own that holds the bytes of
\* the array.
BufferFromResult(h, array) ==
    [heap |-> [h EXCEPT !.blocks = Append(@, BufferFrom(array))],
     buf |-> Len(h.blocks) + 1]

\* A call not yet made on the Buffer files[k], which holds CallSamples[s].
IdleCall(k, s) ==
    [pc |-> "idle", sample |-> s, data |-> k,
     decrypted |-> 0, decompressed |-> 0, result |-> None]

\* Every caller has a Buffer with a container in it; a call is made on the
\* Buffer of its caller or on the Buffer of the first caller.
InitCalls ==
    /\ pc = "calls"
    /\ \E pick \in [1..MaxCalls -> 1..Len(CallSamples)] :
          \E on \in [1..MaxCalls -> 1..MaxCalls] :
             /\ \A c \in 1..MaxCalls : on[c] \in {1, c}
             /\ heap = [files |-> [k \in 1..MaxCalls |-> CallSamples[pick[k]]],
                        blocks |-> <<>>]
             /\ calls = [c \in 1..MaxCalls |-> IdleCall(on[c], pick[on[c]])]
    /\ jobs = {}
    /\ queue = <<>>
    /\ attempted = <<>>
    /\ exitCode = None
    /\ NoCli
    /\ NoProps
    /\ NoExtraction
    /\ NoKeySearch

\* extractPrompts, lines 53-54 and 32-33: the call decrypts into a Buffer of
\* its own and hands an array of the plaintext to the decoder, whose callback
\* comes later; what decrypt throws ends the call.
StartCall(c) ==
    /\ calls[c].pc = "idle"
    /\ \E d \in {DecryptBuffer(heap, calls[c].data)} :
          IF d.status # "ok"
          THEN /\ calls' = [calls EXCEPT ![c] =
                               [@ EXCEPT !.pc = "thrown", !.result = Thrown]]
               /\ UNCHANGED <<heap, jobs>>
          ELSE /\ heap' = d.heap
               /\ jobs' = jobs \cup {[call |-> c, input |-> ArrayFrom(d.heap, d.buf)]}
               /\ calls' = [calls EXCEPT ![c] =
                               [@ EXCEPT !.pc = "decompressing", !.decrypted = d.buf]]

\* decompressLzma, lines 33-36: the decoder is done with the input of a call,
\* whichever it takes first, and its callback rejects the promise the call
\* awaits or resolves it with a Buffer of its own.
Callback(c) ==
    /\ calls[c].pc = "decompressing"
    /\ \E job \in jobs :
          /\ job.call = c
          /\ jobs' = jobs \ {job}
          /\ \E z \in {LzmaDecodeOf(job.input)} :
                IF z.status # "ok"
                THEN /\ calls' = [calls EXCEPT ![c] =
                                     [@ EXCEPT !.pc = "thrown", !.result = Thrown]]
                     /\ heap' = heap
                ELSE \E r \in {BufferFromResult(heap, z.data)} :
                        /\ heap' = r.heap
                        /\ calls' = [calls EXCEPT ![c] =
                                        [@ EXCEPT !.pc = "resolved",
                                                  !.decompressed = r.buf]]

\* extractPrompts, lines 56-68: the call resumes after its await and reads the
\* table from the Buffer it was resolved with.
Resume(c) ==
    /\ calls[c].pc = "resolved"
    /\ LET r == ParseTable(heap.blocks[calls[c].decompressed])
       IN  calls' = [calls EXCEPT ![c] =
               [@ EXCEPT !.pc = IF r.status = "ok" THEN "returned" ELSE "thrown",
                         !.result = r]]
    /\ UNCHANGED <<heap, jobs>>

\* What a step of a call leaves alone.
OnlyCalls ==
    /\ UNCHANGED <<pc, queue, attempted, exitCode>>
    /\ UNCHANGED <<cliVars, propVars>>
    /\ UNCHANGED extractVars
    /\ UNCHANGED keyVars

StartCallStep == pc = "calls" /\ OnlyCalls /\ \E c \in 1..Len(calls) : StartCall(c)

CallbackStep == pc = "calls" /\ OnlyCalls /\ \E c \in 1..Len(calls) : Callback(c)

ResumeStep == pc = "calls" /\ OnlyCalls /\ \E c \in 1..Len(calls) : Resume(c)

NextCalls == StartCallStep \/ CallbackStep \/ ResumeStep

SpecCalls == InitCalls /\ [][NextCalls]_vars

\* -------------------------------------------------------------- cli dispatch

\* What args[k] is when the command line has no such argument.
Undefined == "<undefined>"

\* args[k], k counted from 0 as the code counts.
Arg(a, k) == IF k < Len(a) THEN a[k + 1] ELSE Undefined

\* v || d
OrElse(v, d) == IF v = Undefined \/ v = "" THEN d ELSE v

\* cli, line 171: no argument at all, or a help flag anywhere.
WantsHelp(a) == Len(a) = 0 \/ \E k \in 1..Len(a) : a[k] \in {"--help", "-h"}

\* cli/extract.ts, lines 171-199: the command run for a command line, with the
\* arguments it is called with and the exit code the dispatch itself decides.
Dispatch(a) ==
    IF WantsHelp(a)
    THEN [run |-> "help", argv |-> <<>>, exit |-> ExitWith(0)]
    ELSE IF Arg(a, 0) = "--info"
    THEN [run |-> "showInfo", argv |-> <<Arg(a, 1)>>, exit |-> None]
    ELSE IF Arg(a, 0) = "--download"
    THEN [run |-> "downloadAll", argv |-> <<OrElse(Arg(a, 1), "voice-packs")>>,
          exit |-> None]
    ELSE IF Arg(a, 0) = "--all"
    THEN [run |-> "extractAll",
          argv |-> <<OrElse(Arg(a, 1), "voice-packs"), OrElse(Arg(a, 2), "extracted")>>,
          exit |-> None]
    ELSE [run |-> "extractFile", argv |-> <<Arg(a, 0), OrElse(Arg(a, 1), "extracted")>>,
          exit |-> None]

\* The dispatch of the file that carries the key extraction: the same, with
\* the --extract-key branch tried first.
DispatchWithKey(a) ==
    IF WantsHelp(a)
    THEN [run |-> "help", argv |-> <<>>, exit |-> ExitWith(0)]
    ELSE IF Arg(a, 0) = "--extract-key"
    THEN IF OrElse(Arg(a, 1), Undefined) = Undefined
         THEN [run |-> "usage", argv |-> <<>>, exit |-> ExitWith(1)]
         ELSE [run |-> "extractKey", argv |-> <<Arg(a, 1)>>, exit |-> None]
    ELSE Dispatch(a)

\* The words a command line is made of.
ArgWords ==
    {"--extract-key", "--info", "--download", "--all", "--help", "-h",
     "firmware_dump.bin", "VP_english_UPG_03.bin", ""}

CommandLines == UNION {[1..n -> ArgWords] : n \in 0..MaxArgs}

InitCli ==
    /\ pc = "cli"
    /\ args \in CommandLines
    /\ command = None
    /\ NoProps
    /\ queue = <<>>
    /\ attempted = <<>>
    /\ exitCode = None
    /\ calls = <<>>
    /\ heap = NoHeap
    /\ jobs = {}
    /\ NoExtraction
    /\ NoKeySearch

\* What the dispatch leaves alone.
OnlyCli ==
    /\ UNCHANGED <<args, queue, attempted, calls, heap, jobs>>
    /\ UNCHANGED propVars
    /\ UNCHANGED extractVars
    /\ UNCHANGED keyVars

\* The process runs cli/extract.ts.
DispatchStep ==
    /\ pc = "cli"
    /\ pc' = "dispatched"
    /\ command' = Dispatch(args) @@ [file |-> "cli/extract.ts"]
    /\ exitCode' = Dispatch(args).exit
    /\ OnlyCli

\* The process runs the file that carries the key extraction.
DispatchWithKeyStep ==
    /\ pc = "cli"
    /\ pc' = "dispatched"
    /\ command' = DispatchWithKey(args) @@ [file |-> "part_001"]
    /\ exitCode' = DispatchWithKey(args).exit
    /\ OnlyCli

NextCli == DispatchStep \/ DispatchWithKeyStep

SpecCli == InitCli /\ [][NextCli]_vars

\* ------------------------------------------------- the LZMA properties byte

\* A decoder that takes lp modulo 4.

\* The values of the first byte of a decrypted stream.
PropsBytes == 0..255

InitProps ==
    /\ pc = "props"
    /\ props \in PropsBytes
    /\ params = None
    /\ NoCli
    /\ queue = <<>>
    /\ attempted = <<>>
    /\ exitCode = None
    /\ calls = <<>>
    /\ heap = NoHeap
    /\ jobs = {}
    /\ NoExtraction
    /\ NoKeySearch

\* The header of the stream is parsed.
DecomposeStep ==
    /\ pc = "props"
    /\ pc' = "decomposed"
    /\ params' = LzmaParams(props)
    /\ UNCHANGED props
    /\ UNCHANGED cliVars
    /\ UNCHANGED <<queue, attempted, exitCode, calls, heap, jobs>>
    /\ UNCHANGED extractVars
    /\ UNCHANGED keyVars

NextProps == DecomposeStep

SpecProps == InitProps /\ [][NextProps]_vars

\* ------------------------------------------------- the asset table, as built

NumEntries == Len(image.entries)
WholeTable == image.len >= TableEnd(NumEntries)
Returned == pc \in {"parsed", "done"}
Ended == pc \in {"parsed", "done", "failed"}

\* base_offset as the table defines it: entry 0's absolute offset less the table.
Entry0Base == image.entries[1].abs - TableEnd(NumEntries)
\* The bases an image may have been laid out for.
LayoutBases == {a - TableEnd(NumEntries) : a \in EntryAbs}

LocalAt(base, k) == image.entries[k].abs - base
InBoundsAt(base, k) ==
    /\ 0 <= LocalAt(base, k)
    /\ LocalAt(base, k) + image.entries[k].size <= image.len
AssetAt(base, k) ==
    [index |-> k - 1, size |-> image.entries[k].size,
     data |-> SubSeq(decompressed, LocalAt(base, k) + 1,
                     LocalAt(base, k) + image.entries[k].size)]

\* The records other than record p, in table order, as assets.
RECURSIVE AssetsBut(_, _, _)
AssetsBut(base, p, k) ==
    IF k > NumEntries THEN <<>>
    ELSE IF k = p THEN AssetsBut(base, p, k + 1)
    ELSE <<AssetAt(base, k)>> \o AssetsBut(base, p, k + 1)

OneBadRecord(base, p) ==
    /\ WholeTable
    /\ ~InBoundsAt(base, p)
    /\ \A k \in 1..NumEntries : k # p => InBoundsAt(base, k)

ReturnedIndices == {result.prompts[j].index : j \in 1..Len(result.prompts)}

\* C1: every returned entry lies in the decompressed buffer (0 <= local_offset and
\* local_offset + size <= length, local_offset = absolute_offset - base_offset),
\* and an entry that violates either bound is not returned.
BoundsInvariant ==
    Returned =>
        /\ \A j \in 1..Len(result.prompts) :
              /\ result.prompts[j].index + 1 \in 1..NumEntries
              /\ InBoundsAt(Entry0Base, result.prompts[j].index + 1)
        /\ \A k \in 1..NumEntries :
              ~InBoundsAt(Entry0Base, k) => (k - 1) \notin ReturnedIndices

\* C1 witness: a table with a record below the buffer and a record beyond it, both
\* dropped, and another record returned.
BoundsWitness ==
    /\ Returned
    /\ Len(result.prompts) >= 1
    /\ \E k \in 1..NumEntries : LocalAt(Entry0Base, k) < 0
    /\ \E k \in 1..NumEntries :
          LocalAt(Entry0Base, k) + image.entries[k].size > image.len

\* C2, as claimed: with exactly one record, at any position 0..n-1, out of bounds
\* for the image's layout and the other n-1 valid, the parser returns exactly the
\* n-1 valid records with their bytes.
OneBadAnywhere ==
    Ended =>
        \A base \in LayoutBases : \A p \in 1..NumEntries :
            OneBadRecord(base, p) =>
                /\ result.status = "ok"
                /\ result.prompts = AssetsBut(base, p, 1)

\* C2, amended: with exactly one record at a position 1..n-1 out of bounds (for the
\* base offset entry 0 defines) and the other n-1 in bounds, the parser returns
\* exactly the n-1 in-bounds records, with their table index and bytes.
OneBadAfterFirst ==
    Ended =>
        \A p \in 2..NumEntries :
            OneBadRecord(Entry0Base, p) =>
                /\ result.status = "ok"
                /\ Len(result.prompts) = NumEntries - 1
                /\ result.prompts = AssetsBut(Entry0Base, p, 1)

\* C2 witness: three records, the middle one out of bounds, the two others
\* returned with their two bytes each.
OneBadWitness ==
    /\ Returned
    /\ NumEntries = 3
    /\ OneBadRecord(Entry0Base, 2)
    /\ Len(result.prompts) = 2
    /\ \A j \in 1..2 : Len(result.prompts[j].data) = 2

\* C3: the returned assets are in table order under their 0-based table position:
\* indices strictly increase, and each asset holds the size and bytes of the table
\* slot its index names, also after a skipped entry; the files carry that index.
TableOrder ==
    /\ Returned =>
          /\ \A j \in 1..Len(result.prompts) :
                /\ result.prompts[j].index + 1 \in 1..NumEntries
                /\ InBoundsAt(Entry0Base, result.prompts[j].index + 1)
                /\ result.prompts[j] = AssetAt(Entry0Base, result.prompts[j].index + 1)
          /\ \A i, j \in 1..Len(result.prompts) :
                i < j => result.prompts[i].index < result.prompts[j].index
    /\ pc = "done" =>
          \A f \in files :
              /\ f.name + 1 \in 1..NumEntries
              /\ InBoundsAt(Entry0Base, f.name + 1)
              /\ f.data = AssetAt(Entry0Base, f.name + 1).data

\* C3 witness: an entry was skipped and a later one is returned, so its index is
\* larger than its place in the output.
TableOrderWitness ==
    /\ pc = "done"
    /\ \E j \in 1..Len(result.prompts) :
          /\ result.prompts[j].index > j - 1
          /\ result.prompts[j].size > 0
          /\ [dir |-> info.language, name |-> result.prompts[j].index,
              data |-> result.prompts[j].data] \in files

\* C4: when the entry_count read at offset 4 makes 8 + entry_count*8 exceed the
\* buffer, the parser fails: it returns no asset list, and no file is written.
CorruptTableFails ==
    (Ended /\ image.len >= 8 /\ TableEnd(NumEntries) > image.len) =>
        /\ result = Thrown
        /\ pc = "failed"
        /\ files = {}

\* C4 witness: a table cut inside its last record, whose first record is in bounds.
CorruptTableWitness ==
    /\ pc = "failed"
    /\ NumEntries = 2
    /\ image.len = TableEnd(NumEntries) - 1
    /\ image.entries[1].size = 0

\* -------------------------------------------------------- header and cipher

\* C5: parseHeader produces a header for every buffer of at least 4096 bytes
\* and fails for every buffer shorter than 4096 bytes, also for one long enough
\* to hold the fields it reads.
HeaderNeedsWholeHeader ==
    (pc # "start") => (info.status = "ok" <=> data.len >= HeaderSize)

\* C6: a container whose compression_type byte is not 2 is rejected before any
\* decryption or decompression runs, and no asset is produced for it.
UnsupportedTypeRejected ==
    (info.status = "ok" /\ info.compressionType # CompressionLzmaAes) =>
        /\ decrypted = None
        /\ decompressed = <<>>
        /\ result = None
        /\ files = {}

\* The extraction is past its call of decrypt.
DecryptRan == info.status = "ok" /\ pc \notin {"start", "header"}

\* C7: decrypt fails for every ciphertext whose length is not a multiple of 16,
\* and for a ciphertext of L bytes, L a multiple of 16, it returns exactly L
\* bytes, the CBC plaintext of all L bytes, with no padding removed.
DecryptKeepsLength ==
    DecryptRan =>
        IF Len(data.body) % BlockSize # 0
        THEN decrypted = Thrown /\ pc = "failed"
        ELSE /\ decrypted.status = "ok"
             /\ Len(decrypted.data) = Len(data.body)
             /\ CbcEncrypt(KEY, IV, decrypted.data) = data.body

\* A body of several blocks is decrypted and the zero bytes that pad its last
\* block are still there.
DecryptKeepsLengthWitness ==
    /\ pc = "decrypted"
    /\ Len(data.body) >= 2 * BlockSize
    /\ Len(decrypted.data) = Len(data.body)
    /\ decrypted.data[Len(decrypted.data)] = 0
    /\ decrypted.data[1] = LzmaProps

\* ------------------------------------------------------------- the scanner

\* The positions of fw where 16 bytes in 33..126 are followed by a NUL byte.
KeyPositions ==
    {i \in 0..(Len(fw) - 1) :
        /\ i + 16 < Len(fw)
        /\ \A j \in i..(i + 15) : fw[j + 1] \in 33..126
        /\ fw[i + 17] = 0}

\* C8: the candidates findAscii16Strings emits are exactly the pairs
\* (i, fw[i..i+16)) such that the 16 bytes from i on are all in 33..126 and
\* byte i+16 exists and is 0x00: none is missed, none else is emitted.
ScanExact ==
    (pc = "scanned") =>
        /\ {<<candidates[k].offset, candidates[k].value>> : k \in 1..Len(candidates)}
              = {<<i, SubSeq(fw, i + 1, i + 16)>> : i \in KeyPositions}
        /\ Len(candidates) = Cardinality(KeyPositions)

\* A run is emitted whose NUL terminator is the last byte of the buffer, from a
\* buffer that also holds a run of 16 printable bytes that is not emitted.
ScanExactWitness ==
    /\ pc = "scanned"
    /\ \E k \in 1..Len(candidates) : candidates[k].offset + 17 = Len(fw)
    /\ \E i \in 0..(Len(fw) - 17) :
          /\ \A j \in i..(i + 15) : fw[j + 1] \in 33..126
          /\ i \notin KeyPositions

\* The start of the printable run that ends right before position e.
RunStart(e) ==
    CHOOSE s \in 0..e :
        /\ \A q \in s..(e - 1) : IsPrintable(fw[q + 1])
        /\ s = 0 \/ ~IsPrintable(fw[s])

\* The positions of the NUL bytes that end a printable run of 16 bytes or more.
RunEnds ==
    {e \in 0..(Len(fw) - 1) : fw[e + 1] = 0 /\ e - RunStart(e) >= 16}

\* C25: the candidates come in strictly increasing offset order, the offsets of
\* two of them differ by at least 17, so they never overlap, and a printable
\* run of 16 bytes or more that ends in a NUL yields exactly one candidate,
\* its last 16 bytes.
ScanSpaced ==
    (pc = "scanned") =>
        /\ \A k \in 1..(Len(candidates) - 1) :
              candidates[k].offset < candidates[k + 1].offset
        /\ \A a, b \in 1..Len(candidates) :
              a < b => candidates[b].offset - candidates[a].offset >= 17
        /\ \A e \in RunEnds :
              LET inRun == {k \in 1..Len(candidates) :
                              /\ candidates[k].offset >= RunStart(e)
                              /\ candidates[k].offset < e}
              IN  /\ Cardinality(inRun) = 1
                  /\ \A k \in inRun :
                        /\ candidates[k].offset = e - 16
                        /\ candidates[k].value = SubSeq(fw, e - 15, e)

\* Two candidates are emitted, the second from the last 16 bytes of a longer
\* printable run that starts right after the first one's NUL.
ScanSpacedWitness ==
    /\ pc = "scanned"
    /\ Len(candidates) = 2
    /\ candidates[2].offset - candidates[1].offset > 17
    /\ \E e \in RunEnds :
          /\ e - RunStart(e) > 16
          /\ candidates[2].offset = e - 16
          /\ RunStart(e) = candidates[1].offset + 17

\* -------------------------------------------------------------- the oracle

\* The first five bytes of the CBC plaintext of the first block of ct under
\* key and iv: the deciphered block xored with the IV.
PlainPrefix(key, iv, ct) ==
    SubSeq(XorBytes(AesDecryptBlock(key, SubSeq(ct, 1, 16)), iv), 1, 5)

\* Byte 0 is 0x5D and bytes 1..4 are 16384 in little-endian order.
StreamPrefix == <<93, 0, 64, 0, 0>>

\* C9: tryKeyIvPair accepts a (key, iv, ciphertext) hypothesis if and only if
\* the CBC decryption of the first 16 ciphertext bytes has byte 0 equal to 0x5D
\* and the little-endian 32-bit value at bytes 1..4 equal to 16384.
OracleCriterion ==
    (pc = "tried") =>
        (accepted <=>
            /\ Len(hypothesis.key) = 16
            /\ Len(hypothesis.iv) = 16
            /\ Len(hypothesis.ciphertext) >= 16
            /\ PlainPrefix(hypothesis.key, hypothesis.iv, hypothesis.ciphertext)
                  = StreamPrefix)

\* A hypothesis is accepted on a ciphertext of several blocks.
OracleCriterionWitness ==
    /\ pc = "tried"
    /\ accepted
    /\ Len(hypothesis.ciphertext) > 16

\* The first block of ct deciphers under the key and IV to the stream prefix.
GoodCiphertext(ct) == Len(ct) >= 16 /\ PlainPrefix(KEY, IV, ct) = StreamPrefix

DiffersInOneByte(a, b) ==
    Len(a) = Len(b) /\ Cardinality({p \in 1..Len(a) : a[p] # b[p]}) = 1

\* C10: for a ciphertext whose first block decrypts under the key and IV to
\* byte 0 = 0x5D and bytes 1..4 = 00 40 00 00, the oracle accepts the key and IV
\* and rejects every pair got by changing one byte of the key.
OneByteKeyRejected ==
    (pc = "tried" /\ hypothesis.iv = IV /\ GoodCiphertext(hypothesis.ciphertext)) =>
        /\ (hypothesis.key = KEY) => accepted
        /\ DiffersInOneByte(hypothesis.key, KEY) => ~accepted

\* A key with its last byte changed is rejected on a ciphertext the key and IV
\* are accepted on.
OneByteKeyRejectedWitness ==
    /\ pc = "tried"
    /\ ~accepted
    /\ hypothesis.iv = IV
    /\ GoodCiphertext(hypothesis.ciphertext)
    /\ DiffersInOneByte(hypothesis.key, KEY)
    /\ hypothesis.key[16] # KEY[16]

\* The hypothesis all those that have the key of h, an IV with the bytes 0..4
\* of its IV and a ciphertext with the first 16 bytes of its ciphertext have
\* in common: bytes 5..15 of the IV are the built-in IV's and the ciphertext
\* ends after 16 bytes.
Reduced(h) ==
    [key |-> h.key,
     iv |-> IF Len(h.iv) = 16 THEN Subarray(h.iv, 0, 5) \o Subarray(IV, 5, 16) ELSE h.iv,
     ciphertext |-> Subarray(h.ciphertext, 0, 16)]

\* C26: the verdict depends only on the key, bytes 0..4 of the IV and the
\* first 16 bytes of the ciphertext: hypotheses with the same key whose IVs
\* differ in bytes 5..15 only, or whose ciphertexts agree on the first 16
\* bytes, get the same verdict, the one of the hypothesis they reduce to.
VerdictDependsOnPrefix ==
    (pc = "tried") =>
        LET r == Reduced(hypothesis)
        IN  accepted = TryKeyIvPair(r.key, r.iv, r.ciphertext)

\* An IV that is not the IV in its last byte is accepted with the key on the
\* whole body, as the IV is on the first block of the body.
VerdictDependsOnPrefixWitness ==
    /\ pc = "tried"
    /\ accepted
    /\ hypothesis.key = KEY
    /\ hypothesis.iv # IV
    /\ hypothesis.iv[16] # IV[16]
    /\ Len(hypothesis.ciphertext) > 16
    /\ Reduced(hypothesis) # hypothesis
    /\ Reduced(hypothesis) \in Hypotheses

\* The key or the IV is not 16 bytes long, or the ciphertext has less than 16.
Malformed(h) == Len(h.key) # 16 \/ Len(h.iv) # 16 \/ Len(h.ciphertext) < 16

\* C27: tryKeyIvPair returns true or false for every key, IV and ciphertext and
\* never raises; a ciphertext of less than 16 bytes and a key or IV of the
\* wrong length give false.
OracleTotal ==
    (pc = "tried") =>
        /\ accepted \in BOOLEAN
        /\ Malformed(hypothesis) => accepted = FALSE

\* The key and the IV are rejected on 15 bytes of the body, and a key one byte
\* too long is a hypothesis of the run.
OracleTotalWitness ==
    /\ pc = "tried"
    /\ ~accepted
    /\ hypothesis.key = KEY
    /\ hypothesis.iv = IV
    /\ Len(hypothesis.ciphertext) = 15
    /\ \E h \in Hypotheses : Len(h.key) = 17 /\ h.iv = IV /\ Len(h.ciphertext) > 16

\* ---------------------------------------------------------- the key search

\* The search made at least one test and is over.
SearchEnded == pc \in {"found", "exited"} /\ tested # <<>>

\* The tests made of the candidates at ci and j, in the order made.
TestsOf(ci, j) == SelectSeq(tested, LAMBDA t : t.ci = ci /\ t.j = j)

\* The pairs (ci, j) of which a test was made.
TestedPairs == {<<tested[k].ci, tested[k].j>> : k \in 1..Len(tested)}

\* The key and the IV are candidates at most 5 positions apart.
SecretsInWindow ==
    \E ci \in 1..Len(candidates) : \E j \in (ci + 1)..Min(ci + 5, Len(candidates)) :
        {candidates[ci].value, candidates[j].value} = {KEY, IV}

\* C11: of every pair of candidates (a, b) the search tests, a before b in scan
\* order, it tries (key = b, iv = a) and then (key = a, iv = b), unless a
\* hypothesis succeeded before; so a key and IV inside the window are found
\* whichever of the two comes first in the firmware.
BothRolesTried ==
    /\ \A p \in TestedPairs :
          LET ts == TestsOf(p[1], p[2])
              a == candidates[p[1] + 1].value
              b == candidates[p[2] + 1].value
          IN  /\ p[1] < p[2]
              /\ Len(ts) <= 2
              /\ ts[1].key = b /\ ts[1].iv = a
              /\ Len(ts) = 2 => (~ts[1].passed /\ ts[2].key = a /\ ts[2].iv = b)
              /\ Len(ts) = 1 =>
                    \/ ts[1].passed
                    \/ pc = "search" /\ ts[1] = tested[Len(tested)]
    /\ (SearchEnded /\ SecretsInWindow) =>
          (found # None /\ found.key = KEY /\ found.iv = IV)

\* The key is found although it comes before the IV in the firmware: the
\* second role assignment of the pair passed after the first one failed.
BothRolesTriedWitness ==
    /\ pc = "found"
    /\ found.key = KEY
    /\ found.keyOff < found.ivOff
    /\ Len(tested) >= 4
    /\ ~tested[Len(tested) - 1].passed
    /\ tested[Len(tested) - 1].ci = tested[Len(tested)].ci
    /\ tested[Len(tested) - 1].j = tested[Len(tested)].j

\* Pair p comes before pair q in the order ci ascending, then j ascending.
PairBefore(p, q) == p[1] < q[1] \/ (p[1] = q[1] /\ p[2] < q[2])

\* The pairs the test order holds: ci < j at most 5 positions apart.
WindowPairs ==
    {p \in (0..(Len(candidates) - 1)) \X (0..(Len(candidates) - 1)) :
        p[1] < p[2] /\ p[2] - p[1] <= 5}

\* Test t comes right before test u in the test order: the two roles of one
\* pair, key = later candidate first, or the last test of a pair and the first
\* test of the pair after it.
NextInOrder(t, u) ==
    LET p == <<t.ci, t.j>>
        q == <<u.ci, u.j>>
    IN  \/ /\ p = q
           /\ t.key = candidates[t.j + 1].value /\ t.iv = candidates[t.ci + 1].value
           /\ u.key = candidates[t.ci + 1].value /\ u.iv = candidates[t.j + 1].value
        \/ /\ PairBefore(p, q)
           /\ t.key = candidates[t.ci + 1].value /\ t.iv = candidates[t.j + 1].value
           /\ u.key = candidates[u.j + 1].value /\ u.iv = candidates[u.ci + 1].value
           /\ ~\E w \in WindowPairs : PairBefore(p, w) /\ PairBefore(w, q)

\* C12: the search makes its tests in the test order (ci ascending, then j
\* ascending, then key = later candidate before key = earlier candidate), none
\* left out, returns the first hypothesis that passes and makes no test after
\* the first success.
FirstSuccessReturned ==
    /\ tested # <<>> =>
          /\ <<tested[1].ci, tested[1].j>> = <<0, 1>>
          /\ tested[1].key = candidates[2].value /\ tested[1].iv = candidates[1].value
    /\ \A k \in 1..(Len(tested) - 1) :
          /\ ~tested[k].passed
          /\ NextInOrder(tested[k], tested[k + 1])
    /\ (found # None) <=> (tested # <<>> /\ tested[Len(tested)].passed)
    /\ (found # None) =>
          /\ pc \in {"found", "exited"}
          /\ found.key = tested[Len(tested)].key
          /\ found.iv = tested[Len(tested)].iv

\* A hypothesis is returned after others failed, and the search stopped before
\* a pair later in the order that holds the key and the IV too.
FirstSuccessReturnedWitness ==
    /\ pc = "found"
    /\ Len(tested) >= 3
    /\ \E w \in WindowPairs :
          /\ PairBefore(<<tested[Len(tested)].ci, tested[Len(tested)].j>>, w)
          /\ {candidates[w[1] + 1].value, candidates[w[2] + 1].value} = {KEY, IV}

\* No pair of the test order holds the key and the IV.
NoPassingPair ==
    ~\E w \in WindowPairs :
        {candidates[w[1] + 1].value, candidates[w[2] + 1].value} = {KEY, IV}

\* C13: when no tested pair passes the oracle, also when the firmware yields
\* fewer than 2 candidates, the search ends in failure and reports no key and
\* IV, the built-in ones included.
NoKeyNoReport ==
    /\ (\A k \in 1..Len(tested) : ~tested[k].passed) => found = None
    /\ (pc = "exited" /\ \A k \in 1..Len(tested) : ~tested[k].passed) => exitCode = ExitWith(1)
    /\ (pc = "exited" /\ NoPassingPair) => (found = None /\ exitCode = ExitWith(1))
    /\ (pc \notin {"scan", "scanned"} /\ Len(candidates) < 2) =>
          (pc = "exited" /\ tested = <<>> /\ found = None /\ exitCode = ExitWith(1))

\* The search ran through all its pairs and failed on a firmware that holds
\* the key and the IV more than 5 candidates apart.
NoKeyNoReportWitness ==
    /\ pc = "exited"
    /\ exitCode = ExitWith(1)
    /\ found = None
    /\ Len(tested) >= 2 * Len(candidates)
    /\ \E a \in 1..Len(candidates) : candidates[a].value = KEY
    /\ \E b \in 1..Len(candidates) : candidates[b].value = IV

\* The search ran through its loops to the end without a success.
LoopsExhausted == pc = "exited" /\ tested # <<>> /\ ~tested[Len(tested)].passed

\* The key and the IV are both candidates, but nowhere at most 5 positions apart.
SecretsOutOfWindow ==
    /\ \E a \in 1..Len(candidates) : candidates[a].value = KEY
    /\ \E b \in 1..Len(candidates) : candidates[b].value = IV
    /\ NoPassingPair

\* C22: the candidates at scan positions ci < j are tested if and only if
\* j - ci <= 5 and no hypothesis before them succeeded; so with the key and
\* the IV more than 5 positions apart and no other pair passing, the search
\* ends in failure although both are candidates.
WindowOnly ==
    /\ TestedPairs \subseteq WindowPairs
    /\ LoopsExhausted => TestedPairs = WindowPairs
    /\ (tested # <<>> /\ tested[Len(tested)].passed) =>
          TestedPairs =
              {w \in WindowPairs :
                  ~PairBefore(<<tested[Len(tested)].ci, tested[Len(tested)].j>>, w)}
    /\ (pc = "exited" /\ SecretsOutOfWindow) =>
          (found = None /\ exitCode = ExitWith(1))

\* The key is the first candidate and the IV the seventh: the pair was never
\* tested, the pairs 5 apart were, and the search failed.
WindowOnlyWitness ==
    /\ LoopsExhausted
    /\ SecretsOutOfWindow
    /\ candidates[1].value = KEY
    /\ candidates[PairSpan + 1].value = IV
    /\ <<0, PairSpan>> \notin TestedPairs
    /\ <<0, PairSpan - 1>> \in TestedPairs
    /\ found = None
    /\ exitCode = ExitWith(1)

\* The candidates the one at ci was tested with.
PartnersOf(ci) == {p[2] : p \in {q \in TestedPairs : q[1] = ci}}

\* No candidate is tested with itself, a candidate has at most 5 partners and
\* 2 tests with each, the tests of a pair come together, and n candidates take
\* at most 10 * n tests.
SearchBounded ==
    /\ \A k \in 1..Len(tested) :
          /\ tested[k].ci < tested[k].j
          /\ tested[k].j < Len(candidates)
    /\ \A p \in TestedPairs : Len(TestsOf(p[1], p[2])) <= 2
    /\ \A k, m \in 1..Len(tested) :
          (k < m /\ tested[k].ci = tested[m].ci /\ tested[k].j = tested[m].j) => m = k + 1
    /\ \A ci \in 0..(Len(candidates) - 1) : Cardinality(PartnersOf(ci)) <= 5
    /\ Len(tested) <= 10 * Len(candidates)

\* The pairs of the test order from the one under test on.
PairsLeft ==
    {w \in WindowPairs : ~PairBefore(w, <<search.ci, search.j>>)}

\* A bound on the steps the command has still to take: the tests left (two for
\* a pair, one if its first role was tried), the return and the steps before
\* the loops.
StepsLeft ==
    CASE pc = "scan" -> 10 * MaxCands + 5
      [] pc = "scanned" -> 10 * MaxCands + 4
      [] pc = "body" -> 10 * MaxCands + 3
      [] pc = "search" ->
            1 + 2 * Cardinality(PairsLeft) - (IF search.swapped THEN 1 ELSE 0)
      [] pc = "found" -> 1
      [] OTHER -> 0

\* The command is at a step it can take: before the loops, at the return, or
\* in the loops at a pair of two candidates.
CanStep ==
    \/ pc \in {"scan", "scanned", "body", "found"}
    \/ /\ pc = "search"
       /\ search # None
       /\ 0 <= search.ci /\ search.ci < search.j /\ search.j < Len(candidates)

\* C28: the key search ends for every candidate sequence (every step that is
\* not the last can be taken and lowers a bound on the steps left), never pairs
\* a candidate with itself, makes at most 10 * n calls of the oracle for n
\* candidates (5 partners each, 2 role assignments), and visits each unordered
\* pair of candidates at most once.
SearchTerminates ==
    /\ []SearchBounded
    /\ [](pc # "exited" => CanStep)
    /\ [][StepsLeft' < StepsLeft]_vars

\* The search ran through all pairs of the longest candidate list: its first
\* candidate took 10 calls of the oracle, the last one none.
SearchTerminatesWitness ==
    /\ pc = "exited"
    /\ Len(candidates) = MaxCands
    /\ Cardinality(PartnersOf(0)) = 5
    /\ Len(SelectSeq(tested, LAMBDA t : t.ci = 0)) = 10
    /\ PartnersOf(Len(candidates) - 1) = {}
    /\ Len(tested) = 2 * Cardinality(WindowPairs)

\* C14: every error, KeyNotFound included, is delivered to the caller as an
\* error result: no key-recovery operation ends the host process on it, so the
\* process ends only by the exit of the command that ran to its end.
ErrorsLeaveProcessAlive ==
    /\ exitCode \in {None, ExitWith(0)}
    /\ (pc = "exited") => found # None

\* ------------------------------------------------------------------ the batch

\* C15: in a batch a decode failure on one file does not keep the later files
\* from being attempted: when the command ends, every file of the list has
\* been attempted.
BatchAttemptsAll ==
    (pc = "exited" /\ attempted # <<>>) => queue = <<>>

\* ------------------------------------------------------- the calls in flight

\* Call c is over.
CallOver(c) == calls[c].pc \in {"returned", "thrown"}

\* What extractPrompts returns on each container when it is the only call.
AloneResults == AsSeq([k \in 1..Len(CallSamples) |-> ExtractPrompts(CallSamples[k])])

OwnBuffer(c) == \A d \in 1..Len(calls) : d # c => calls[d].data # calls[c].data

RoundTrip ==
    /\ pc # "failed"
    /\ Returned =>
          /\ Len(result.prompts) = Len(image.assets)
          /\ \A k \in 1..Len(image.assets) :
                /\ result.prompts[k].index = k - 1
                /\ result.prompts[k].data = image.assets[k]
    /\ (pc = "done") =>
          \A k \in 1..Len(image.assets) :
              [dir |-> info.language, name |-> k - 1, data |-> image.assets[k]] \in files

\* The assets of a container that xz compressed, the second a repeat of the
\* first that the stream holds as a match, are written out as placed.
RoundTripWitness ==
    /\ pc = "done"
    /\ image.by = "xz"
    /\ Len(image.assets) >= 2
    /\ image.assets[2] = image.assets[1]
    /\ Len(image.assets[2]) > BlockSize
    /\ Len(data.body) < Len(decompressed)
    /\ [dir |-> info.language, name |-> 1, data |-> image.assets[2]] \in files

\* Every record of the image lies in the buffer.
AllInBounds == \A k \in 1..NumEntries : InBoundsAt(Entry0Base, k)

\* C18: for a table of n entries that are all in bounds, exactly n pairs are
\* returned, with indices 0, 1, ..., n-1 in that order, each of the byte length
\* its record declares: no in-bounds entry is dropped.
AllEntriesReturned ==
    (Ended /\ NumEntries >= 1 /\ WholeTable /\ AllInBounds) =>
        /\ result.status = "ok"
        /\ Len(result.prompts) = NumEntries
        /\ \A j \in 1..Len(result.prompts) :
              /\ result.prompts[j].index = j - 1
              /\ result.prompts[j].size = image.entries[j].size
              /\ Len(result.prompts[j].data) = image.entries[j].size

\* A table of the most entries, of differing sizes, is returned whole.
AllEntriesReturnedWitness ==
    /\ pc = "parsed"
    /\ NumEntries = MaxEntries
    /\ WholeTable
    /\ AllInBounds
    /\ Len(result.prompts) = NumEntries
    /\ \E j, k \in 1..NumEntries : image.entries[j].size > image.entries[k].size

\* ------------------------------------------------------------------ the nonce

\* The nonce the file does not have.
OtherNonce ==
    IF data.len > 0 /\ data.head[1] = Nonces[1][1] THEN Nonces[2] ELSE Nonces[1]

\* C19: the leading 32 header bytes are not used as key or IV: whatever they
\* are, the plaintext is the one the body was encrypted from under the fixed
\* IV, as far as the file holds its blocks, and a container that differs from
\* the file in those bytes only decodes to the same assets.
NonceUnused ==
    /\ (DecryptRan /\ decrypted.status = "ok") =>
          decrypted.data = SubSeq(ContainerPlain(image), 1, Len(data.body))
    /\ (info.status = "ok" /\ Ended) =>
          LET other == ExtractPrompts(WithNonce(data, OtherNonce))
          IN  IF pc = "failed" THEN other.status # "ok" ELSE result = other

\* A whole container whose nonce is not the IV is decoded, and so is the
\* container that has the IV for its nonce.
NonceUnusedWitness ==
    /\ pc = "done"
    /\ SubSeq(data.head, 1, NonceLen) = Nonces[1]
    /\ SubSeq(OtherNonce, 1, BlockSize) = IV
    /\ decrypted.status = "ok"
    /\ Len(decrypted.data) >= 2 * BlockSize
    /\ files # {}
    /\ ExtractPrompts(WithNonce(data, OtherNonce)) = result

\* --------------------------------------------------------------- the command line

\* C21: a command line that starts with --extract-key runs the key search on
\* the file named next and never an extraction of a voice pack called
\* --extract-key; with no file named it ends with an error and runs nothing.
ExtractKeyDispatched ==
    (pc = "dispatched" /\ ~WantsHelp(args) /\ Arg(args, 0) = "--extract-key") =>
        /\ command.run # "extractFile"
        /\ Len(args) = 1 => command.run = "usage" /\ exitCode = ExitWith(1)
        /\ (Len(args) > 1 /\ Arg(args, 1) # "") =>
              command.run = "extractKey" /\ command.argv = <<Arg(args, 1)>>


\* ------------------------------------------------------ the properties byte

\* C23: for every properties byte, pb = props / 45, lp = (props / 9) % 5 and
\* lc = props % 9 give back props = (pb * 5 + lp) * 9 + lc with lc below 9 and
\* lp below 5, pb is the writeup's (props / 9) / 5, and 0x5D gives lc = 3,
\* lp = 0, pb = 2.
PropsDecomposition ==
    (pc = "decomposed") =>
        /\ params.pb = props \div 45
        /\ params.lp = (props \div 9) % 5
        /\ params.lc = props % 9
        /\ props = (params.pb * 5 + params.lp) * 9 + params.lc
        /\ 0 <= params.lc /\ params.lc < 9
        /\ 0 <= params.lp /\ params.lp < 5
        /\ params.pb = (props \div 9) \div 5
        /\ props = LzmaProps => params = [lc |-> 3, lp |-> 0, pb |-> 2]

\* The properties byte of the voice packs is decomposed.
PropsDecompositionWitness ==
    /\ pc = "decomposed"
    /\ props = LzmaProps
    /\ params = [lc |-> 3, lp |-> 0, pb |-> 2]

\* ------------------------------------------------------- the body and its size

\* C24: the bytes deciphered are exactly the body_size bytes from offset 0x1000
\* on, body_size being the u32 the header declares; what the file holds after
\* them is not deciphered.
BodySizeBoundsDecryption ==
    DecryptRan => decrypted = Decrypt(Subarray(data.body, 0, Narrow(info.bodySize)))

\* ------------------------------------------------------ entry 0 and the base

\* The image with the absolute offset of entry 0 set to a.
WithEntry0Abs(a) == [image EXCEPT !.entries[1].abs = a]

\* C29: base_offset comes from entry 0 alone, so entry 0 is read at local
\* offset 8 + entry_count * 8 whatever its absolute offset is and is dropped
\* exactly when 8 + entry_count * 8 + size_0 exceeds the buffer length; another
\* absolute offset in entry 0 shifts the local offset of every other entry by
\* the difference.
Entry0AtTableEnd ==
    (Returned /\ NumEntries >= 1) =>
        /\ (0 \in ReturnedIndices) <=>
              ~(TableEnd(NumEntries) + image.entries[1].size > image.len)
        /\ (0 \in ReturnedIndices) =>
              result.prompts[1] =
                  [index |-> 0, size |-> image.entries[1].size,
                   data |-> SubSeq(decompressed, TableEnd(NumEntries) + 1,
                                   TableEnd(NumEntries) + image.entries[1].size)]
        /\ \A a \in EntryAbs :
              LET other == WithEntry0Abs(a)
                  buf == ImageBytes(other.entries, other.len)
                  r == ParseTable(buf)
                  shift == a - image.entries[1].abs
                  Local(k) == LocalAt(Entry0Base, k) - shift
                  Kept(k) == 0 <= Local(k) /\ Local(k) + image.entries[k].size <= image.len
              IN  /\ r.status = "ok"
                  /\ \A k \in 2..NumEntries :
                        /\ Kept(k) <=> \E j \in 1..Len(r.prompts) : r.prompts[j].index = k - 1
                        /\ \A j \in 1..Len(r.prompts) :
                              r.prompts[j].index = k - 1 =>
                                  r.prompts[j].data =
                                      SubSeq(buf, Local(k) + 1, Local(k) + image.entries[k].size)

\* Entry 0 names an absolute offset that lies beyond the buffer in the layout
\* of the region and is returned all the same, from the end of the table, and
\* so is another entry, which a smaller offset in entry 0 would drop.
Entry0AtTableEndWitness ==
    /\ Returned
    /\ NumEntries >= 2
    /\ image.entries[1].abs - RegionBase > image.len
    /\ image.entries[1].size > 0
    /\ {0, 1} \subseteq ReturnedIndices
    /\ \E a \in EntryAbs :
          /\ a < image.entries[1].abs
          /\ ~\E j \in 1..Len(ParseTable(ImageBytes(WithEntry0Abs(a).entries, image.len)).prompts) :
                ParseTable(ImageBytes(WithEntry0Abs(a).entries, image.len)).prompts[j].index = 1

\* ------------------------------------------------------------ the empty table

\* C30: with entry_count = 0 the offset field of entry 0, bytes 12..16, is
\* read all the same: a buffer of 16 bytes or more gives an empty asset
\* sequence, a buffer of 8 to 15 bytes makes the parser fail although the
\* table, 8 bytes long, lies in the buffer.
EmptyTableReadsEntry0 ==
    (Ended /\ NumEntries = 0 /\ image.len >= TableEnd(0)) =>
        IF image.len >= 16
        THEN /\ pc # "failed"
             /\ result = [status |-> "ok", prompts |-> <<>>]
             /\ files = {}
        ELSE /\ pc = "failed"
             /\ result = Thrown
             /\ files = {}

\* The parser failed on a buffer that holds the whole empty table and four
\* bytes more; longer buffers with an empty table are among the images.
EmptyTableReadsEntry0Witness ==
    /\ pc = "failed"
    /\ NumEntries = 0
    /\ image.len = TableEnd(0) + 4
    /\ Len(decompressed) = image.len
    /\ ReadUInt32LE(decompressed, 4) = Wide(0)
    /\ \E img \in Images : Len(img.entries) = 0 /\ img.len >= 16

====
